---- MODULE Spec2Model ----
(***************************************************************************)
(* Device programming of the Joulescope JS220 (pyjoulescope_driver):       *)
(* the Programmer of program.py (reset_to, _device_await,                  *)
(* segment_program) driving one device through the Driver contract (Spec), *)
(* release_program of program.py on top of it (SpecRelease), and           *)
(* release_to_segments of release.py on images of bytes (SpecParse).       *)
(* Record of record.py, its open and close against the driver's            *)
(* subscriptions, is a machine of its own (SpecRecord).                    *)
(*                                                                         *)
(* The Programmer is sequential code: pc is its position and stack holds   *)
(* the return labels of the calls in progress.  A step ends at a Driver    *)
(* call.  The device (its mode, its presence on the bus, its flash) and    *)
(* the clock move between the Programmer's steps.                          *)
(***************************************************************************)
EXTENDS Integers, Sequences, FiniteSets, TLC

(***************************************************************************)
(* release.py: subtypes, controller types, the target registry             *)
(***************************************************************************)
SUBTYPE_CTRL_UPDATER1 == 1
SUBTYPE_CTRL_UPDATER2 == 2
SUBTYPE_CTRL_APP == 3
SUBTYPE_SENSOR_FPGA == 4
CTRL_TYPE_APP == 0
CTRL_TYPE_UPD1 == 1
CTRL_TYPE_UPD2 == 2

\* Python's None where an integer may stand (a version, a subtype, a target id).
None == -1
\* Python's None where a string may stand (a reset name).
NoName == "None"

Subtypes == {SUBTYPE_CTRL_UPDATER1, SUBTYPE_CTRL_UPDATER2, SUBTYPE_CTRL_APP, SUBTYPE_SENSOR_FPGA}
CtrlSubtypes == {SUBTYPE_CTRL_UPDATER1, SUBTYPE_CTRL_UPDATER2, SUBTYPE_CTRL_APP}

TARGETS ==
    [s \in Subtypes |->
        CASE s = SUBTYPE_CTRL_UPDATER2 ->
               [subtype |-> s, name |-> "ctrl_updater2", mem_region |-> "h/mem/c/upd2", target_id |-> CTRL_TYPE_UPD2]
          [] s = SUBTYPE_CTRL_UPDATER1 ->
               [subtype |-> s, name |-> "ctrl_updater1", mem_region |-> "h/mem/c/upd1", target_id |-> CTRL_TYPE_UPD1]
          [] s = SUBTYPE_SENSOR_FPGA ->
               [subtype |-> s, name |-> "sensor_fpga", mem_region |-> "h/mem/s/app1", target_id |-> None]
          [] OTHER ->
               [subtype |-> s, name |-> "ctrl_app", mem_region |-> "h/mem/c/app", target_id |-> CTRL_TYPE_APP]]

(***************************************************************************)
(* program.py: SUBTYPE_RESET                                               *)
(***************************************************************************)
ResetNameFpgaAsApp(subtype) ==
    CASE subtype = SUBTYPE_CTRL_UPDATER1 -> "update1"
      [] subtype = SUBTYPE_CTRL_UPDATER2 -> "update2"
      [] OTHER -> "app"

SUBTYPE_RESET(subtype) ==
    CASE subtype = SUBTYPE_CTRL_UPDATER1 -> "update1"
      [] subtype = SUBTYPE_CTRL_UPDATER2 -> "update2"
      [] subtype = SUBTYPE_CTRL_APP -> "app"
      [] OTHER -> NoName

(***************************************************************************)
(* Versions: packed major8.minor8.patch16                                  *)
(***************************************************************************)
VerPack(major, minor, patch) == major * 16777216 + minor * 65536 + patch
V100 == VerPack(1, 0, 0)
V101 == VerPack(1, 0, 1)
\* What a region without a valid image reads back as: a version no segment carries.
VErased == VerPack(0, 0, 0)
FlashVersions == {V100, V101, VErased}
\* The versions of the segments handed to segment_program.
SegVersions == {V101}

(***************************************************************************)
(* Device paths: strings as sequences of characters                        *)
(***************************************************************************)
DevAppPath == <<"u", "/", "j", "s">>

\* s[:n] and s[n:] of Python, n counted from 0.
StrTake(s, n) == SubSeq(s, 1, n)
StrDrop(s, n) == SubSeq(s, n + 1, Len(s))

DevUpdPath == StrTake(DevAppPath, 2) \o <<"&">> \o StrDrop(DevAppPath, 2)
NoPath == <<>>
Paths == {DevAppPath, DevUpdPath}

ProgrammerInitKeepsMarker(device_path) ==
    IF device_path[3] # "&"
    THEN [path |-> device_path,
          running_subtype |-> SUBTYPE_CTRL_APP,
          path_app |-> device_path,
          path_updater |-> StrTake(device_path, 2) \o <<"&">> \o StrDrop(device_path, 2)]
    ELSE [path |-> device_path,
          running_subtype |-> None,
          path_app |-> StrTake(device_path, 2) \o StrDrop(device_path, 2),
          path_updater |-> device_path]

\* Programmer.__init__: the fields derived from device_path.
ProgrammerInit(device_path) ==
    IF device_path[3] # "&"
    THEN [path |-> device_path,
          running_subtype |-> SUBTYPE_CTRL_APP,
          path_app |-> device_path,
          path_updater |-> StrTake(device_path, 2) \o <<"&">> \o StrDrop(device_path, 2)]
    ELSE [path |-> device_path,
          running_subtype |-> None,
          path_app |-> StrTake(device_path, 2) \o StrDrop(device_path, 3),
          path_updater |-> device_path]

(***************************************************************************)
(* Bounds                                                                  *)
(***************************************************************************)
\* The counters of Driver calls made by one operation stop counting here.
MaxCalls == 11
\* The counter of enumerations (device_paths) stops counting here.
MaxPolls == 1

CallKinds == {"reset", "close", "open", "device_paths", "query", "erase", "write"}
NoCalls == [k \in CallKinds |-> 0]

VARIABLES
    \* Programmer
    path, running_subtype, path_app, path_updater,
    \* control: position, return labels, the operation in progress and its end
    pc, stack, op, outcome, retval,
    \* reset_to and _device_await
    rt_target, da_path, expired,
    \* segment_program
    seg, attempt,
    \* the device and the driver's handle
    dev_on, dev_mode, dev_reset, flash, opened,
    \* observation: the last Driver call, the calls counted per operation, the
    \* steps of the reset_to call in progress, the last enumeration poll
    last_call, cnt, rt_log, rt_entry, last_poll, op_entry, readback,
    \* release_program: its arguments, its locals and what it has done so far
    rp,
    \* the driver and the device answer every request in time and as asked
    reliable,
    \* release_to_segments: the image, the remainder, the segments so far
    ps,
    \* a call of version_to_str or of the constructor Programmer(...): its
    \* argument and its result
    pf,
    \* release_get: its arguments and locals, the files and the server
    rg,
    \* segment_program: its arguments progress_msg, p1 and p2
    sp_args,
    \* observation: the last call of the progress callback
    progress,
    \* observation: what the device has done since reset_to closed the handle
    da_device,
    \* Record: its fields, the position of open and close, the driver's
    \* subscriptions and the writers
    rec

vars == <<path, running_subtype, path_app, path_updater,
          pc, stack, op, outcome, retval,
          rt_target, da_path, expired, seg, attempt,
          dev_on, dev_mode, dev_reset, flash, opened,
          last_call, cnt, rt_log, rt_entry, last_poll, op_entry, readback,
          rp, reliable, ps, pf, rg, sp_args, progress, da_device, rec>>

progVars == <<path, running_subtype, path_app, path_updater>>
devVars == <<dev_on, dev_mode, dev_reset, flash, opened>>
stillVars == <<rp, reliable, ps, pf, rg, rec>>
quietVars == <<stillVars, da_device>>
relVars == <<quietVars, sp_args, progress>>


(***************************************************************************)
(* The Driver contract, as the device answers it                           *)
(***************************************************************************)
\* The spelling under which the device enumerates in its present mode.
DevPath == IF dev_mode = SUBTYPE_CTRL_APP THEN DevAppPath ELSE DevUpdPath

\* Driver.device_paths()
Enumerated == IF dev_on THEN {DevPath} ELSE {}

\* A request on path p reaches the device: it is on the bus under p and the
\* handle on p is open.
Deliverable(p) == dev_on /\ DevPath = p /\ opened = p

\* Driver.publish(topic, value, timeout): acknowledged (TRUE) or TimeoutError
\* (FALSE).  A request that cannot reach the device is never acknowledged.
PublishOutcomes(p) ==
    IF Deliverable(p) THEN (IF reliable THEN {TRUE} ELSE {TRUE, FALSE}) ELSE {FALSE}

\* A write request that was acknowledged has programmed the region (TRUE), or
\* has left it erased (FALSE).
WriteOutcomes == IF reliable THEN {TRUE} ELSE {TRUE, FALSE}

\* The mode a reset name asks the controller for.
ResetNameMode(name) ==
    CASE name = "update1" -> SUBTYPE_CTRL_UPDATER1
      [] name = "update2" -> SUBTYPE_CTRL_UPDATER2
      [] name = "app" -> SUBTYPE_CTRL_APP
      [] OTHER -> None

\* The modes the controller may come up in after a reset request: the
\* requested one, or updater1, the default fallback.
BootModes(requested) ==
    IF reliable THEN {requested} ELSE {requested, SUBTYPE_CTRL_UPDATER1}

\* The controller type the running image reports on c/target.
CtrlTypeOf(mode) ==
    CASE mode = SUBTYPE_CTRL_UPDATER1 -> CTRL_TYPE_UPD1
      [] mode = SUBTYPE_CTRL_UPDATER2 -> CTRL_TYPE_UPD2
      [] OTHER -> CTRL_TYPE_APP

\* The Programmer's view agrees with the device: the mode it believes in, when
\* it believes in one, is the mode the controller runs, and its path is the
\* path the device is enumerated and open under.
InSync ==
    /\ running_subtype # None => running_subtype = dev_mode
    /\ dev_on
    /\ path = DevPath
    /\ opened = path

\* What an operation finds when it starts.
Entry == [running_subtype |-> running_subtype, path |-> path, opened |-> opened,
          in_sync |-> InSync]

Call(kind, p, topic, value) == [kind |-> kind, path |-> p, topic |-> topic, value |-> value]
NoCall == Call("none", NoPath, "", "")

Cap(kind) == IF kind = "device_paths" THEN MaxPolls ELSE MaxCalls
Count(kind) == [cnt EXCEPT ![kind] = IF @ < Cap(kind) THEN @ + 1 ELSE @]
Count2(kind) == [cnt EXCEPT ![kind] = IF @ + 2 <= Cap(kind) THEN @ + 2 ELSE Cap(kind)]

(***************************************************************************)
(* Calls, returns and exceptions                                           *)
(***************************************************************************)
Outcome(kind, name) == [kind |-> kind, name |-> name]
Running == Outcome("running", "")

\* return val
Return(val) ==
    /\ pc' = Head(stack)
    /\ stack' = Tail(stack)
    /\ retval' = val
    /\ outcome' = IF Head(stack) = "idle" THEN Outcome("returned", "") ELSE outcome

ExceptNothing(ret, kind) == "none"

\* The except clause around the call that returns to label ret, for an
\* exception of this kind: release_program's "except TimeoutError" around
\* each probing reset_to.  The Programmer has no try statement.
ExceptLabel(ret, kind) ==
    IF ret = "rp_probe_ver" /\ kind = "TimeoutError" THEN "rp_probe_except" ELSE "none"

\* raise kind(name): the innermost call in progress that stands in a try
\* statement catching it resumes at its except clause; with none, the
\* operation ends.
Raise(kind, name) ==
    LET caught == {i \in 1..Len(stack) : ExceptLabel(stack[i], kind) # "none"} IN
    IF caught # {}
    THEN LET i == CHOOSE j \in caught : \A k \in caught : j <= k IN
         /\ pc' = ExceptLabel(stack[i], kind)
         /\ stack' = SubSeq(stack, i + 1, Len(stack))
         /\ retval' = None
         /\ UNCHANGED outcome
    ELSE /\ pc' = "idle"
         /\ stack' = <<>>
         /\ retval' = None
         /\ outcome' = Outcome(kind, name)

Step(s, p, value) == [step |-> s, path |-> p, value |-> value]
\* A repeated poll is logged once.
Logged(log, e) == IF Len(log) > 0 /\ log[Len(log)] = e THEN log ELSE Append(log, e)

NoOp == [name |-> "none", subtype |-> None, version |-> None]
NoSegment == [subtype |-> None, version |-> None]
NoResetTo == [state |-> "none", running_subtype |-> None, path |-> NoPath]
NoEntry == [running_subtype |-> None, path |-> NoPath, opened |-> NoPath, in_sync |-> FALSE]
NoPoll == [phase |-> "none", present |-> FALSE, late |-> FALSE]
NoReadback == [version |-> None, target_id |-> None]

\* self.reset_to(subtype), returning to label ret
CallResetTo(subtype, ret) ==
    /\ rt_target' = subtype
    /\ pc' = "rt_entry"
    /\ stack' = <<ret>> \o stack
    /\ rt_log' = <<>>
    /\ last_poll' = NoPoll
    /\ rt_entry' = [state |-> "active", running_subtype |-> running_subtype, path |-> path]

\* A client of the Programmer starts operation o.
Begin(o) ==
    /\ pc = "ready"
    /\ op' = o
    /\ outcome' = Running
    /\ retval' = None
    /\ cnt' = NoCalls
    /\ last_poll' = NoPoll
    /\ readback' = NoReadback
    /\ op_entry' = Entry

(***************************************************************************)
(* program.py: version_to_str, and the locals of release_program           *)
(***************************************************************************)
\* The argument of version_to_str is None, a str or an int: a value with its
\* type.  Py(v) is the value of a version as the model keeps it, None or an
\* integer.
PyNone == [type |-> "NoneType", int |-> 0, str |-> ""]
PyInt(v) == [type |-> "int", int |-> v, str |-> ""]
PyStr(s) == [type |-> "str", int |-> 0, str |-> s]
Py(v) == IF v = None THEN PyNone ELSE PyInt(v)

VersionToStrNoPatch(version) ==
    IF version.type = "NoneType" THEN "?.?.?"
    ELSE IF version.type = "str" THEN version.str
    ELSE LET v_minor == (version.int \div 65536) % 256
             v_major == (version.int \div 16777216) % 256 IN
         ToString(v_major) \o "." \o ToString(v_minor) \o "." \o ToString(0)

\* version_to_str(version): "version & 0xffff", "(version >> 16) & 0xff" and
\* "(version >> 24) & 0xff" of a non-negative integer are the remainder and
\* the quotients below.
version_to_str(version) ==
    IF version.type = "NoneType" THEN "?.?.?"
    ELSE IF version.type = "str" THEN version.str
    ELSE LET v_patch == version.int % 65536
             v_minor == (version.int \div 65536) % 256
             v_major == (version.int \div 16777216) % 256 IN
         ToString(v_major) \o "." \o ToString(v_minor) \o "." \o ToString(v_patch)

VersionsListUpdater2First(cur) ==
    << <<"app", version_to_str(Py(cur[SUBTYPE_CTRL_APP]))>>,
       <<"fpga", version_to_str(Py(cur[SUBTYPE_SENSOR_FPGA]))>>,
       <<"update2", version_to_str(Py(cur[SUBTYPE_CTRL_UPDATER2]))>>,
       <<"update1", version_to_str(Py(cur[SUBTYPE_CTRL_UPDATER1]))>> >>

\* The four locals ctrl_app_version, sensor_fpga_version, update1_version and
\* update2_version are one function of the subtype they belong to.
\* [['app', ...], ['fpga', ...], ['update1', ...], ['update2', ...]]
VersionsList(cur) ==
    << <<"app", version_to_str(Py(cur[SUBTYPE_CTRL_APP]))>>,
       <<"fpga", version_to_str(Py(cur[SUBTYPE_SENSOR_FPGA]))>>,
       <<"update1", version_to_str(Py(cur[SUBTYPE_CTRL_UPDATER1]))>>,
       <<"update2", version_to_str(Py(cur[SUBTYPE_CTRL_UPDATER2]))>> >>
NoVersions == <<>>

ProbeOrder == <<SUBTYPE_CTRL_UPDATER2, SUBTYPE_CTRL_UPDATER1>>

ProgramOrderUpdater1First ==
    <<SUBTYPE_CTRL_UPDATER1, SUBTYPE_CTRL_UPDATER2, SUBTYPE_SENSOR_FPGA, SUBTYPE_CTRL_APP>>

\* The four programming steps of release_program, in the order of its text.
ProgramOrder ==
    <<SUBTYPE_CTRL_UPDATER2, SUBTYPE_CTRL_UPDATER1, SUBTYPE_SENSOR_FPGA, SUBTYPE_CTRL_APP>>

NeedsProgramPresent(segment, force_program, current) == segment # NoSegment

\* segment is not None and (force_program or segment['version'] != current)
NeedsProgram(segment, force_program, current) ==
    segment # NoSegment /\ (force_program \/ segment.version # current)

SkipNeverResets(subtype) == FALSE

\* Only the ctrl_app step has an else: programmer.reset_to(SUBTYPE_CTRL_APP)
SkipResets(subtype) == subtype = SUBTYPE_CTRL_APP

NoFinalQuery == [issued |-> FALSE, running_subtype |-> None, path |-> NoPath]

\* release_program has not been called.
NoRelease ==
    [segments |-> [s \in Subtypes |-> NoSegment],
     force_program |-> FALSE,
     cur |-> [s \in Subtypes |-> None],
     versions_before |-> NoVersions,
     versions_after |-> NoVersions,
     k |-> 0,
     \* observation
     before |-> [s \in Subtypes |-> None],
     probe |-> [i \in 1..Len(ProbeOrder) |-> "none"],
     decided |-> 0,
     sp_calls |-> <<>>,
     sp_returned |-> 0,
     sp_active |-> None,
     final_reset |-> FALSE,
     final_query |-> NoFinalQuery,
     flash0 |-> [s \in Subtypes |-> None]]

\* release_to_segments has not been called.
NoResult == [returned |-> FALSE, segments |-> <<>>]
NoParse == [records |-> <<>>, image |-> <<>>, img |-> <<>>, segments |-> <<>>,
            result |-> NoResult]

\* progress(completion, msg): the completion is kept in hundredths, 0.15 as 15.
Progress(completion, msg) == [completion |-> completion, msg |-> msg]
NoProgress == [completion |-> None, msg |-> ""]
\* segment_program has not been called.
NoArgs == [progress_msg |-> "", p1 |-> None, p2 |-> None]

\* Neither version_to_str nor the constructor has been called.  parts are the
\* major, minor and patch numbers an integer argument was packed from,
\* path_app the app spelling the constructor's argument was taken from.
NoPure == [fn |-> "none", version |-> PyNone, parts |-> <<>>, device_path |-> NoPath,
           path_app |-> NoPath, str |-> "", done |-> FALSE]

(***************************************************************************)
(* release.py: the release channels, the two directories of local copies   *)
(***************************************************************************)
MATURITY == <<"alpha", "beta", "stable">>
Directories == {"dist", "release"}
\* A file that does not exist, and a directory without image files.
NoFile == [exists |-> FALSE, bytes |-> <<>>]
File(bytes) == [exists |-> TRUE, bytes |-> bytes]
NoFiles == [d \in Directories |-> [m \in {MATURITY[i] : i \in DOMAIN MATURITY} |-> NoFile]]
\* release_get has not been called.
NoGet == [maturity |-> PyNone, force_download |-> FALSE, m |-> "", src |-> "None",
          files |-> NoFiles, files0 |-> NoFiles, server |-> "ok", url_saves |-> 0,
          accessed |-> FALSE, result |-> <<>>]

(***************************************************************************)
(* record.py: the Record before its constructor has run                    *)
(***************************************************************************)
\* signals are the keys of self._signals in insertion order, wr the number of
\* the Writer in self._wr (0 for None), utc and utc_next the signals whose
\* field of that name is not None.  pc is the position inside open or close,
\* caller who called close, exc the exception on its way out of close's try
\* block.  subs are the driver's subscriptions, writers the Writer objects
\* made so far.  subscribed, unsubscribed, zeros and failed observe the calls
\* of the last open and of the close after it (failed: the publishes of 0 that
\* raised); last is the call that finished last.
NoRecord ==
    [signals |-> <<>>, signal_id |-> <<>>, on_data_fn |-> 0, wr |-> 0,
     data_map |-> {}, utc |-> {}, utc_next |-> {},
     pc |-> "none", i |-> 0, caller |-> "", exc |-> "", filename |-> "",
     was_open |-> FALSE, outcome |-> "",
     subs |-> <<>>, writers |-> <<>>,
     subscribed |-> <<>>, unsubscribed |-> <<>>, zeros |-> {}, failed |-> {},
     last |-> "none"]

(***************************************************************************)
(* Init: the Programmer constructed on the path of an enumerated, open     *)
(* device                                                                  *)
(***************************************************************************)
Init ==
    \E device_path \in Paths, mode \in CtrlSubtypes :
        /\ (mode = SUBTYPE_CTRL_APP) <=> (device_path = DevAppPath)
        /\ LET p == ProgrammerInit(device_path) IN
              /\ path = p.path
              /\ running_subtype = p.running_subtype
              /\ path_app = p.path_app
              /\ path_updater = p.path_updater
        /\ pc = "ready" /\ stack = <<>>
        /\ op = NoOp
        /\ outcome = Outcome("returned", "") /\ retval = None
        /\ rt_target = None /\ da_path = NoPath /\ expired = FALSE
        /\ seg = NoSegment /\ attempt = 0
        /\ dev_on = TRUE /\ dev_mode = mode /\ dev_reset = None
        /\ flash = [s \in Subtypes |-> V100]
        /\ opened = device_path
        /\ last_call = NoCall /\ cnt = NoCalls /\ rt_log = <<>>
        /\ rt_entry = NoResetTo
        /\ last_poll = NoPoll
        /\ op_entry = NoEntry
        /\ readback = NoReadback
        /\ rp = NoRelease
        /\ reliable = FALSE
        /\ ps = NoParse
        /\ pf = NoPure
        /\ rg = NoGet
        /\ sp_args = NoArgs
        /\ progress = NoProgress
        /\ da_device = "none"
        /\ rec = NoRecord


(***************************************************************************)
(* The device and the clock                                                *)
(***************************************************************************)
\* The controller acts on a reset request: it drops off the bus, and the
\* driver's handle on it goes with it.
DeviceLeave ==
    /\ dev_on /\ dev_reset # None
    /\ dev_on' = FALSE
    /\ opened' = IF opened = DevPath THEN NoPath ELSE opened
    /\ da_device' = IF da_device = "closed" /\ pc \in {"da_removal", "da_appear"}
                    THEN "left" ELSE da_device
    /\ UNCHANGED <<dev_mode, dev_reset, flash>>
    /\ UNCHANGED <<stillVars, sp_args, progress, progVars, pc, stack, op, outcome, retval, rt_target, da_path, expired,
                   seg, attempt, last_call, cnt, rt_log, rt_entry, last_poll, op_entry, readback>>

\* The controller has rebooted and enumerates again.
DeviceArrive ==
    /\ ~dev_on
    /\ \E m \in BootModes(dev_reset) :
          /\ dev_mode' = m
          /\ da_device' =
                IF da_device # "left" THEN da_device
                ELSE IF /\ pc \in {"da_removal", "da_appear"}
                        /\ ~expired
                        /\ da_path = (IF m = SUBTYPE_CTRL_APP THEN DevAppPath ELSE DevUpdPath)
                     THEN "back" ELSE "none"
    /\ dev_on' = TRUE
    /\ dev_reset' = None
    /\ UNCHANGED <<flash, opened>>
    /\ UNCHANGED <<stillVars, sp_args, progress, progVars, pc, stack, op, outcome, retval, rt_target, da_path, expired,
                   seg, attempt, last_call, cnt, rt_log, rt_entry, last_poll, op_entry, readback>>

\* time.time() passes t_end of the _device_await in progress.
Tick ==
    /\ pc \in {"da_removal", "da_appear"}
    /\ ~expired
    /\ ~reliable
    /\ expired' = TRUE
    /\ UNCHANGED <<relVars, progVars, devVars, pc, stack, op, outcome, retval, rt_target, da_path,
                   seg, attempt, last_call, cnt, rt_log, rt_entry, last_poll, op_entry, readback>>

(***************************************************************************)
(* Programmer.reset_to and Programmer._device_await                        *)
(***************************************************************************)
ResetToNeverNoop(running, subtype) == FALSE

\* if self._running_subtype == subtype: return
ResetToIsNoop(running, subtype) == running = subtype

AwaitPathAlwaysUpdater(subtype) == path_updater

\* path = self._path_app if subtype == SUBTYPE_CTRL_APP else self._path_updater
AwaitPath(subtype) == IF subtype = SUBTYPE_CTRL_APP THEN path_app ELSE path_updater

RemovalPollDeadlineFirst(present, late) ==
    IF late THEN "raise" ELSE IF present THEN "again" ELSE "break"

\* One pass of the first loop of _device_await.
RemovalPoll(present, late) ==
    IF present
    THEN IF late THEN "raise" ELSE "again"
    ELSE "break"

AppearPollDeadlineFirst(present, late) ==
    IF late THEN "raise" ELSE IF present THEN "found" ELSE "sleep"

\* One pass of the second loop of _device_await.
AppearPoll(present, late) ==
    IF present THEN "found"
    ELSE IF late THEN "raise" ELSE "sleep"

ResetToNoop ==
    /\ pc = "rt_entry"
    /\ ResetToIsNoop(running_subtype, rt_target)
    /\ Return(None)
    /\ rt_entry' = [rt_entry EXCEPT !.state = "returned"]
    /\ UNCHANGED <<relVars, progVars, devVars, op, rt_target, da_path, expired, seg, attempt,
                   last_call, cnt, rt_log, last_poll, op_entry, readback>>

\* self._driver.publish(self._path + '/h/!reset', reset_target)
ResetToPublish ==
    /\ pc = "rt_entry"
    /\ ~ResetToIsNoop(running_subtype, rt_target)
    /\ LET reset_target == SUBTYPE_RESET(rt_target) IN
       /\ last_call' = Call("publish", path, "h/!reset", reset_target)
       /\ cnt' = Count("reset")
       /\ rt_log' = Append(rt_log, Step("publish", path, reset_target))
       /\ \E ack \in PublishOutcomes(path) :
            IF ack
            THEN /\ dev_reset' = ResetNameMode(reset_target)
                 /\ pc' = "rt_close"
                 /\ UNCHANGED <<stack, outcome, retval, rt_entry>>
            ELSE /\ Raise("TimeoutError", "")
                 /\ rt_entry' = [rt_entry EXCEPT !.state = "raised"]
                 /\ UNCHANGED dev_reset
    /\ UNCHANGED <<relVars, progVars, dev_on, dev_mode, flash, opened, op, rt_target, da_path, expired,
                   seg, attempt, last_poll, op_entry, readback>>

ResetToCloseSetsSubtype ==
    /\ pc = "rt_close"
    /\ last_call' = Call("close", path, "", "")
    /\ cnt' = Count("close")
    /\ rt_log' = Append(rt_log, Step("close", path, ""))
    /\ opened' = IF opened = path THEN NoPath ELSE opened
    /\ da_path' = AwaitPath(rt_target)
    /\ expired' = FALSE
    /\ pc' = "da_removal"
    /\ running_subtype' = rt_target
    /\ da_device' = IF dev_on THEN "closed" ELSE "none"
    /\ UNCHANGED <<stillVars, sp_args, progress, path, path_app, path_updater, dev_on, dev_mode, dev_reset, flash, stack, op, outcome, retval,
                   rt_target, seg, attempt, rt_entry, last_poll, op_entry, readback>>

\* self._driver.close(self._path), then _device_await(path) starts: t_end is set
ResetToClose ==
    /\ pc = "rt_close"
    /\ last_call' = Call("close", path, "", "")
    /\ cnt' = Count("close")
    /\ rt_log' = Append(rt_log, Step("close", path, ""))
    /\ opened' = IF opened = path THEN NoPath ELSE opened
    /\ da_path' = AwaitPath(rt_target)
    /\ expired' = FALSE
    /\ pc' = "da_removal"
    /\ da_device' = IF dev_on THEN "closed" ELSE "none"
    /\ UNCHANGED <<stillVars, sp_args, progress, progVars, dev_on, dev_mode, dev_reset, flash, stack, op, outcome, retval,
                   rt_target, seg, attempt, rt_entry, last_poll, op_entry, readback>>

\* First loop of _device_await: until self._path is no longer enumerated.
DeviceAwaitRemoval ==
    /\ pc = "da_removal"
    /\ LET present == path \in Enumerated
           next == RemovalPoll(present, expired) IN
       /\ last_call' = Call("device_paths", NoPath, "", "")
       /\ cnt' = Count("device_paths")
       /\ last_poll' = [phase |-> "removal", present |-> present, late |-> expired]
       /\ rt_log' = Logged(rt_log, Step(IF present THEN "poll" ELSE "removed", path, ""))
       /\ CASE next = "raise" ->
                 /\ Raise("TimeoutError", "")
                 /\ rt_entry' = [rt_entry EXCEPT !.state = "raised"]
            [] next = "again" ->
                 UNCHANGED <<pc, stack, outcome, retval, rt_entry>>
            [] OTHER ->
                 /\ pc' = "da_appear"
                 /\ UNCHANGED <<stack, outcome, retval, rt_entry>>
       /\ da_device' = IF next = "raise" THEN "none" ELSE da_device
    /\ UNCHANGED <<stillVars, sp_args, progress, progVars, devVars, op, rt_target, da_path, expired, seg, attempt,
                   op_entry, readback>>

\* Second loop of _device_await: until device_path is enumerated.
DeviceAwaitAppear ==
    /\ pc = "da_appear"
    /\ LET present == da_path \in Enumerated
           next == AppearPoll(present, expired) IN
       /\ last_call' = Call("device_paths", NoPath, "", "")
       /\ cnt' = Count("device_paths")
       /\ last_poll' = [phase |-> "appear", present |-> present, late |-> expired]
       /\ CASE next = "found" ->
                 /\ path' = da_path
                 /\ rt_log' = Append(Append(rt_log, Step("appeared", da_path, "")),
                                     Step("adopt", da_path, ""))
                 /\ pc' = "rt_open"
                 /\ UNCHANGED <<stack, outcome, retval, rt_entry>>
            [] next = "raise" ->
                 /\ Raise("TimeoutError", "")
                 /\ rt_entry' = [rt_entry EXCEPT !.state = "raised"]
                 /\ rt_log' = Logged(rt_log, Step("wait", da_path, ""))
                 /\ UNCHANGED path
            [] OTHER ->
                 /\ rt_log' = Logged(rt_log, Step("wait", da_path, ""))
                 /\ UNCHANGED <<path, pc, stack, outcome, retval, rt_entry>>
       /\ da_device' = IF next = "raise" THEN "none" ELSE da_device
    /\ UNCHANGED <<stillVars, sp_args, progress, running_subtype, path_app, path_updater, devVars, op, rt_target, da_path,
                   expired, seg, attempt, op_entry, readback>>

\* self._running_subtype = subtype; self._driver.open(self._path)
ResetToOpen ==
    /\ pc = "rt_open"
    /\ running_subtype' = rt_target
    /\ last_call' = Call("open", path, "", "")
    /\ cnt' = Count("open")
    /\ rt_log' = Append(Append(rt_log, Step("set", path, SUBTYPE_RESET(rt_target))),
                        Step("open", path, ""))
    /\ IF path \in Enumerated
       THEN /\ opened' = path
            /\ Return(None)
            /\ rt_entry' = [rt_entry EXCEPT !.state = "returned"]
       ELSE /\ Raise("DriverError", "")
            /\ rt_entry' = [rt_entry EXCEPT !.state = "raised"]
            /\ UNCHANGED opened
    /\ da_device' = "none"
    /\ UNCHANGED <<stillVars, sp_args, progress, path, path_app, path_updater, dev_on, dev_mode, dev_reset, flash, op,
                   rt_target, da_path, expired, seg, attempt, last_poll, op_entry, readback>>


(***************************************************************************)
(* Programmer.segment_program                                              *)
(***************************************************************************)
PreconditionSameUpdater(subtype) ==
    CASE subtype = SUBTYPE_CTRL_UPDATER1 -> SUBTYPE_CTRL_UPDATER1
      [] subtype = SUBTYPE_CTRL_UPDATER2 -> SUBTYPE_CTRL_UPDATER2
      [] OTHER -> None

\* if subtype == SUBTYPE_CTRL_UPDATER1: self.reset_to(SUBTYPE_CTRL_UPDATER2)
\* elif subtype == SUBTYPE_CTRL_UPDATER2: self.reset_to(SUBTYPE_CTRL_UPDATER1)
PreconditionTarget(subtype) ==
    CASE subtype = SUBTYPE_CTRL_UPDATER1 -> SUBTYPE_CTRL_UPDATER2
      [] subtype = SUBTYPE_CTRL_UPDATER2 -> SUBTYPE_CTRL_UPDATER1
      [] OTHER -> None

VerifiedVersionOnly(target_id, version, segment) == version = segment.version

\* self.target_id == target['target_id'] and version == segment['version']
Verified(target_id, version, segment) ==
    /\ target_id = TARGETS[segment.subtype].target_id
    /\ version = segment.version

AttemptMsgOffByOne(n) ==
    IF n = 0 THEN "" ELSE " (retry " \o ToString(n + 1) \o ")"

\* attempt_msg = '' if attempt == 0 else f' (retry {attempt})'
AttemptMsg(n) ==
    IF n = 0 THEN "" ELSE " (retry " \o ToString(n) \o ")"

NineAttempts == 10 - 1
ElevenAttempts == 10 + 1

\* for attempt in range(10)
MaxAttempts == 10

\* Top of the loop body: the ping-pong precondition.
SpAttempt ==
    /\ pc = "sp_attempt"
    /\ attempt < MaxAttempts
    /\ LET pre == PreconditionTarget(seg.subtype) IN
       IF pre # None
       THEN CallResetTo(pre, "sp_erase")
       ELSE /\ pc' = "sp_erase"
            /\ UNCHANGED <<stack, rt_target, rt_log, rt_entry, last_poll>>
    /\ progress' = Progress(sp_args.p1, sp_args.progress_msg \o AttemptMsg(attempt))
    /\ UNCHANGED <<quietVars, sp_args, progVars, devVars, op, outcome, retval, da_path, expired,
                   seg, attempt, last_call, cnt, op_entry, readback>>

\* The loop is exhausted: raise RuntimeError(f'Failed to program {target["name"]}')
SpFail ==
    /\ pc = "sp_attempt"
    /\ attempt >= MaxAttempts
    /\ Raise("RuntimeError", TARGETS[seg.subtype].name)
    /\ UNCHANGED <<relVars, progVars, devVars, op, rt_target, da_path, expired, seg, attempt,
                   last_call, cnt, rt_log, rt_entry, last_poll, op_entry, readback>>

\* self.publish(target['mem_region'] + '/!erase', 0, timeout=10)
SpErase ==
    /\ pc = "sp_erase"
    /\ progress' = Progress(sp_args.p1, sp_args.progress_msg \o " erase" \o AttemptMsg(attempt))
    /\ last_call' = Call("erase", path, TARGETS[seg.subtype].mem_region, "0")
    /\ cnt' = Count("erase")
    /\ \E ack \in PublishOutcomes(path) :
         IF ack
         THEN /\ flash' = [flash EXCEPT ![seg.subtype] = VErased]
              /\ pc' = "sp_write"
              /\ UNCHANGED <<stack, outcome, retval>>
         ELSE /\ Raise("TimeoutError", "")
              /\ UNCHANGED flash
    /\ UNCHANGED <<quietVars, sp_args, progVars, dev_on, dev_mode, dev_reset, opened, op,
                   rt_target, da_path, expired, seg, attempt, rt_log, rt_entry, last_poll,
                   op_entry, readback>>

\* self.publish(target['mem_region'] + '/!write', segment['img'], timeout=10)
\* and what follows it: return None, or self.reset_to(subtype)
SpWrite ==
    /\ pc = "sp_write"
    /\ progress' = Progress(sp_args.p2, sp_args.progress_msg \o " write" \o AttemptMsg(attempt))
    /\ last_call' = Call("write", path, TARGETS[seg.subtype].mem_region, "img")
    /\ cnt' = Count("write")
    /\ \E ack \in PublishOutcomes(path), lands \in WriteOutcomes :
         IF ack
         THEN /\ flash' = IF lands THEN [flash EXCEPT ![seg.subtype] = seg.version] ELSE flash
              /\ IF SUBTYPE_RESET(seg.subtype) = NoName
                 THEN /\ Return(None)
                      /\ UNCHANGED <<rt_target, rt_log, rt_entry, last_poll>>
                 ELSE /\ CallResetTo(seg.subtype, "sp_verify")
                      /\ UNCHANGED <<outcome, retval>>
         ELSE /\ Raise("TimeoutError", "")
              /\ UNCHANGED <<flash, rt_target, rt_log, rt_entry, last_poll>>
    /\ UNCHANGED <<quietVars, sp_args, progVars, dev_on, dev_mode, dev_reset, opened, op,
                   da_path, expired, seg, attempt, op_entry, readback>>

\* version = self.version; the comparison with self.target_id; return version
\* or go round the loop.  The two queries are one step: the device does not
\* move between them.
SpVerify ==
    /\ pc = "sp_verify"
    /\ LET version == flash[dev_mode]
           target_id == CtrlTypeOf(dev_mode) IN
       /\ last_call' = Call("query", path, "c/target", "")
       /\ cnt' = Count2("query")
       /\ readback' = [version |-> version, target_id |-> target_id]
       /\ IF Verified(target_id, version, seg)
          THEN /\ Return(version)
               /\ UNCHANGED attempt
          ELSE /\ attempt' = attempt + 1
               /\ pc' = "sp_attempt"
               /\ UNCHANGED <<stack, outcome, retval>>
    /\ UNCHANGED <<relVars, progVars, devVars, op, rt_target, da_path, expired, seg,
                   rt_log, rt_entry, last_poll, op_entry>>

(***************************************************************************)
(* The Programmer's clients: one operation at a time                       *)
(***************************************************************************)
Op(name, subtype, version) == [name |-> name, subtype |-> subtype, version |-> version]

\* programmer.reset_to(subtype)
ClientResetTo ==
    \E subtype \in CtrlSubtypes :
        /\ Begin(Op("reset_to", subtype, None))
        /\ CallResetTo(subtype, "idle")
        /\ UNCHANGED <<relVars, progVars, devVars, da_path, expired, seg, attempt, last_call>>

\* programmer.segment_program(segment, ...)
\* The progress_msg, p1 and p2 a client calls segment_program with.
ClientArgs == [progress_msg |-> "Program", p1 |-> 0, p2 |-> 50]

ClientSegmentProgram ==
    \E subtype \in Subtypes, version \in SegVersions :
        /\ Begin(Op("segment_program", subtype, version))
        /\ seg' = [subtype |-> subtype, version |-> version]
        /\ sp_args' = ClientArgs
        /\ attempt' = 0
        /\ pc' = "sp_attempt"
        /\ stack' = <<"idle">>
        /\ UNCHANGED <<quietVars, progress, progVars, devVars, rt_target, da_path, expired,
                       last_call, rt_log, rt_entry>>

\* A client's call that is one Driver call: no reset_to is in progress, and
\* the call returns or raises at once.
Single(o, kind, result) ==
    /\ pc = "ready"
    /\ pc' = "idle"
    /\ op' = o
    /\ outcome' = result
    /\ retval' = None
    /\ cnt' = [NoCalls EXCEPT ![kind] = 1]
    /\ last_call' = Call(kind, path, "", "")
    /\ last_poll' = NoPoll
    /\ readback' = NoReadback
    /\ op_entry' = Entry
    /\ UNCHANGED <<relVars, progVars, stack, rt_target, da_path, expired, seg, attempt,
                   rt_log, rt_entry>>

\* programmer.open(): self._driver.open(self._path); the Driver refuses a path
\* that is not enumerated.
ClientOpen ==
    /\ IF path \in Enumerated
       THEN /\ opened' = path
            /\ Single(Op("open", None, None), "open", Outcome("returned", ""))
       ELSE /\ UNCHANGED opened
            /\ Single(Op("open", None, None), "open", Outcome("DriverError", ""))
    /\ UNCHANGED <<dev_on, dev_mode, dev_reset, flash>>

\* programmer.close(): self._driver.close(self._path)
ClientClose ==
    /\ opened' = IF opened = path THEN NoPath ELSE opened
    /\ Single(Op("close", None, None), "close", Outcome("returned", ""))
    /\ UNCHANGED <<dev_on, dev_mode, dev_reset, flash>>

\* The operation has ended and its caller has seen how: its locals are gone,
\* and the Programmer is ready for the next operation.
ClientDone ==
    /\ pc = "idle"
    /\ pc' = "ready"
    /\ op' = NoOp /\ outcome' = Outcome("returned", "") /\ retval' = None
    /\ rt_target' = None /\ da_path' = NoPath /\ expired' = FALSE
    /\ seg' = NoSegment /\ attempt' = 0
    /\ last_call' = NoCall /\ cnt' = NoCalls /\ rt_log' = <<>> /\ rt_entry' = NoResetTo
    /\ last_poll' = NoPoll /\ op_entry' = NoEntry /\ readback' = NoReadback
    /\ sp_args' = NoArgs /\ progress' = NoProgress
    /\ UNCHANGED <<quietVars, progVars, devVars, stack>>

Next ==
    \/ ClientDone
    \/ ClientResetTo
    \/ ClientSegmentProgram
    \/ ClientOpen
    \/ ClientClose
    \/ ResetToNoop
    \/ ResetToPublish
    \/ ResetToClose
    \/ DeviceAwaitRemoval
    \/ DeviceAwaitAppear
    \/ ResetToOpen
    \/ SpAttempt
    \/ SpFail
    \/ SpErase
    \/ SpWrite
    \/ SpVerify
    \/ DeviceLeave
    \/ DeviceArrive
    \/ Tick

Spec == Init /\ [][Next]_vars


(***************************************************************************)
(* release_program                                                         *)
(***************************************************************************)
rtVars == <<rt_target, da_path, expired, rt_log, rt_entry, last_poll>>
spVars == <<seg, attempt, readback>>

\* Driver.query(topic) on path p answers when the request reaches the device,
\* and raises TimeoutError when it does not.
QueryAnswered(p) == Deliverable(p)

\* The image release_program is given, as release_to_segments returns it: each
\* subtype with its segment or without one.
Segment(subtype, version) == [subtype |-> subtype, version |-> version]
ImageContents == {Subtypes, Subtypes \ {SUBTYPE_CTRL_APP}, {}}
Images == {[s \in Subtypes |-> IF s \in present THEN V101 ELSE None] : present \in ImageContents}
SegmentsOf(image) ==
    [s \in Subtypes |-> IF image[s] = None THEN NoSegment ELSE Segment(s, image[s])]
\* What the four regions of the device hold when release_program is called.
Flashes == {[s \in Subtypes |-> V100], [s \in Subtypes |-> V101]}

\* The state in which release_program(driver, device_path, image,
\* force_program) is entered: the device enumerated and open on device_path.
InitRelease ==
    \E device_path \in Paths, mode \in CtrlSubtypes, image \in Images,
       force_program \in BOOLEAN, versions \in Flashes, r \in BOOLEAN :
        /\ (mode = SUBTYPE_CTRL_APP) <=> (device_path = DevAppPath)
        /\ LET p == ProgrammerInit(device_path) IN
              /\ path = p.path
              /\ running_subtype = p.running_subtype
              /\ path_app = p.path_app
              /\ path_updater = p.path_updater
              /\ op_entry = [running_subtype |-> p.running_subtype, path |-> p.path,
                             opened |-> device_path, in_sync |-> TRUE]
        /\ pc = "rp_start" /\ stack = <<>>
        /\ op = Op("release_program", None, None)
        /\ outcome = Running /\ retval = None
        /\ rt_target = None /\ da_path = NoPath /\ expired = FALSE
        /\ seg = NoSegment /\ attempt = 0
        /\ dev_on = TRUE /\ dev_mode = mode /\ dev_reset = None
        /\ flash = versions
        /\ opened = device_path
        /\ last_call = NoCall /\ cnt = NoCalls /\ rt_log = <<>>
        /\ rt_entry = NoResetTo
        /\ last_poll = NoPoll
        /\ readback = NoReadback
        /\ rp = [NoRelease EXCEPT !.segments = SegmentsOf(image),
                                  !.force_program = force_program,
                                  !.flash0 = versions]
        /\ reliable = r
        /\ ps = NoParse
        /\ pf = NoPure
        /\ rg = NoGet
        /\ sp_args = NoArgs
        /\ progress = NoProgress
        /\ da_device = "none"
        /\ rec = NoRecord

\* An exception leaves release_program.
Propagate(kind, name) ==
    /\ pc' = "idle"
    /\ stack' = <<>>
    /\ retval' = None
    /\ outcome' = Outcome(kind, name)

\* The progress calls ahead of the two probes.
ProbeProgress == <<Progress(2, "Check updater2 version"), Progress(5, "Check updater1 version")>>

\* msg and the two fractions of the programming step of a subtype:
\* progress(p1, msg), then segment_program(segment, progress, msg, p1, p2)
SegmentArgs(subtype) ==
    CASE subtype = SUBTYPE_CTRL_UPDATER2 -> [progress_msg |-> "Program updater2", p1 |-> 10, p2 |-> 15]
      [] subtype = SUBTYPE_CTRL_UPDATER1 -> [progress_msg |-> "Program updater1", p1 |-> 20, p2 |-> 25]
      [] subtype = SUBTYPE_SENSOR_FPGA -> [progress_msg |-> "Program sensor FPGA", p1 |-> 30, p2 |-> 55]
      [] OTHER -> [progress_msg |-> "Program controller application", p1 |-> 65, p2 |-> 90]

\* programmer = Programmer(driver, device_path)
\* if programmer.is_in_app: ctrl_app_version = programmer.version
\* else: ctrl_app_version = None
ReleaseStart ==
    /\ pc = "rp_start"
    /\ progress' = Progress(0, "Check app version")
    /\ IF path = path_app
       THEN /\ last_call' = Call("query", path, "c/fw/version", "")
            /\ cnt' = Count("query")
            /\ IF QueryAnswered(path)
               THEN /\ rp' = [rp EXCEPT !.cur[SUBTYPE_CTRL_APP] = flash[dev_mode], !.k = 1]
                    /\ pc' = "rp_probe"
                    /\ UNCHANGED <<stack, retval, outcome>>
               ELSE /\ Propagate("TimeoutError", "")
                    /\ UNCHANGED rp
       ELSE /\ rp' = [rp EXCEPT !.cur[SUBTYPE_CTRL_APP] = None, !.k = 1]
            /\ pc' = "rp_probe"
            /\ UNCHANGED <<stack, retval, outcome, last_call, cnt>>
    /\ UNCHANGED <<progVars, devVars, op, rtVars, spVars, op_entry, reliable, ps, pf, rg, rec, da_device, sp_args>>

\* try: programmer.reset_to(SUBTYPE_CTRL_UPDATER2), and then the same for
\* SUBTYPE_CTRL_UPDATER1
ReleaseProbe ==
    /\ pc = "rp_probe"
    /\ progress' = ProbeProgress[rp.k]
    /\ CallResetTo(ProbeOrder[rp.k], "rp_probe_ver")
    /\ UNCHANGED <<progVars, devVars, op, outcome, retval, da_path, expired, spVars,
                   last_call, cnt, op_entry, quietVars, sp_args>>

\* The probing step after this one.
AfterProbe(r) ==
    IF r.k = Len(ProbeOrder) THEN [r EXCEPT !.k = 0] ELSE [r EXCEPT !.k = @ + 1]
AfterProbeLabel == IF rp.k = Len(ProbeOrder) THEN "rp_before" ELSE "rp_probe"

\* update2_version = programmer.version, still inside the try
ReleaseProbeVersion ==
    /\ pc = "rp_probe_ver"
    /\ last_call' = Call("query", path, "c/fw/version", "")
    /\ cnt' = Count("query")
    /\ IF QueryAnswered(path)
       THEN /\ rp' = AfterProbe([rp EXCEPT !.cur[ProbeOrder[rp.k]] = flash[dev_mode],
                                           !.probe[rp.k] = "ok"])
            /\ pc' = AfterProbeLabel
            /\ UNCHANGED <<stack, retval, outcome>>
       ELSE /\ LET handler == ExceptLabel("rp_probe_ver", "TimeoutError") IN
               IF handler # "none"
               THEN pc' = handler /\ UNCHANGED <<stack, retval, outcome>>
               ELSE Propagate("TimeoutError", "")
            /\ UNCHANGED rp
    /\ UNCHANGED <<progVars, devVars, op, rtVars, spVars, op_entry, reliable, ps, pf, rg, rec, da_device, sp_args, progress>>

\* except TimeoutError: update2_version = None; programmer.close()
ReleaseProbeExcept ==
    /\ pc = "rp_probe_except"
    /\ rp' = [rp EXCEPT !.cur[ProbeOrder[rp.k]] = None, !.probe[rp.k] = "timeout"]
    /\ last_call' = Call("close", path, "", "")
    /\ cnt' = Count("close")
    /\ opened' = IF opened = path THEN NoPath ELSE opened
    /\ pc' = "rp_probe_reopen"
    /\ UNCHANGED <<progVars, dev_on, dev_mode, dev_reset, flash, stack, op, outcome, retval,
                   rtVars, spVars, op_entry, reliable, ps, pf, rg, rec, da_device, sp_args, progress>>

\* programmer.open(), the last statement of the except clause; the Driver
\* refuses a path that is not enumerated.
ReleaseProbeReopen ==
    /\ pc = "rp_probe_reopen"
    /\ last_call' = Call("open", path, "", "")
    /\ cnt' = Count("open")
    /\ IF path \in Enumerated
       THEN /\ opened' = path
            /\ rp' = AfterProbe(rp)
            /\ pc' = AfterProbeLabel
            /\ UNCHANGED <<stack, retval, outcome>>
       ELSE /\ Propagate("DriverError", "")
            /\ UNCHANGED <<opened, rp>>
    /\ UNCHANGED <<progVars, dev_on, dev_mode, dev_reset, flash, op, rtVars, spVars,
                   op_entry, reliable, ps, pf, rg, rec, da_device, sp_args, progress>>

\* sensor_fpga_version = programmer.query('s/fpga/version'); versions_before
ReleaseVersionsBefore ==
    /\ pc = "rp_before"
    /\ last_call' = Call("query", path, "s/fpga/version", "")
    /\ cnt' = Count("query")
    /\ IF QueryAnswered(path)
       THEN /\ LET cur == [rp.cur EXCEPT ![SUBTYPE_SENSOR_FPGA] = flash[SUBTYPE_SENSOR_FPGA]] IN
               rp' = [rp EXCEPT !.cur = cur, !.before = cur,
                                !.versions_before = VersionsList(cur), !.k = 1]
            /\ pc' = "rp_segment"
            /\ UNCHANGED <<stack, retval, outcome>>
       ELSE /\ Propagate("TimeoutError", "")
            /\ UNCHANGED rp
    /\ UNCHANGED <<progVars, devVars, op, rtVars, spVars, op_entry, reliable, ps, pf, rg, rec, da_device, sp_args, progress>>

\* The programming step after this one.
AfterSegment(r) ==
    IF r.k = Len(ProgramOrder) THEN [r EXCEPT !.k = 0] ELSE [r EXCEPT !.k = @ + 1]
AfterSegmentLabel == IF rp.k = Len(ProgramOrder) THEN "rp_final" ELSE "rp_segment"

\* segment = segments.get(subtype)
\* if segment is not None and (force_program or segment['version'] != current):
\*     programmer.segment_program(segment, ...)
\* else (ctrl_app only): programmer.reset_to(SUBTYPE_CTRL_APP)
ReleaseSegment ==
    /\ pc = "rp_segment"
    /\ progress' = Progress(SegmentArgs(ProgramOrder[rp.k]).p1,
                          SegmentArgs(ProgramOrder[rp.k]).progress_msg)
    /\ LET subtype == ProgramOrder[rp.k]
           segment == rp.segments[subtype] IN
       IF NeedsProgram(segment, rp.force_program, rp.cur[subtype])
       THEN /\ seg' = segment
            /\ sp_args' = SegmentArgs(subtype)
            /\ attempt' = 0
            /\ pc' = "sp_attempt"
            /\ stack' = <<"rp_segment_ret">> \o stack
            /\ rp' = [rp EXCEPT !.decided = @ + 1, !.sp_calls = Append(@, subtype),
                                !.sp_active = subtype]
            /\ UNCHANGED rtVars
       ELSE IF SkipResets(subtype)
            THEN /\ CallResetTo(SUBTYPE_CTRL_APP, AfterSegmentLabel)
                 /\ rp' = AfterSegment([rp EXCEPT !.decided = @ + 1, !.final_reset = TRUE])
                 /\ UNCHANGED <<seg, sp_args, attempt, da_path, expired>>
            ELSE /\ rp' = AfterSegment([rp EXCEPT !.decided = @ + 1])
                 /\ pc' = AfterSegmentLabel
                 /\ UNCHANGED <<stack, seg, sp_args, attempt, rtVars>>
    /\ UNCHANGED <<progVars, devVars, op, outcome, retval, readback, last_call, cnt,
                   op_entry, reliable, ps, pf, rg, rec, da_device>>

\* segment_program has returned: update2_version, update1_version and
\* ctrl_app_version are assigned its value, the sensor FPGA step drops it.
ReleaseSegmentReturn ==
    /\ pc = "rp_segment_ret"
    /\ LET subtype == ProgramOrder[rp.k]
           cur == IF subtype = SUBTYPE_SENSOR_FPGA THEN rp.cur
                  ELSE [rp.cur EXCEPT ![subtype] = retval] IN
       rp' = AfterSegment([rp EXCEPT !.cur = cur, !.sp_active = None, !.sp_returned = @ + 1])
    /\ pc' = AfterSegmentLabel
    /\ UNCHANGED <<progVars, devVars, stack, op, outcome, retval, rtVars, spVars,
                   last_call, cnt, op_entry, reliable, ps, pf, rg, rec, da_device, sp_args, progress>>

\* sensor_fpga_version = programmer.query('s/fpga/version')
ReleaseFinalQuery ==
    /\ pc = "rp_final"
    /\ progress' = Progress(97, "Finalizing")
    /\ last_call' = Call("query", path, "s/fpga/version", "")
    /\ cnt' = Count("query")
    /\ IF QueryAnswered(path)
       THEN /\ rp' = [rp EXCEPT !.cur[SUBTYPE_SENSOR_FPGA] = flash[SUBTYPE_SENSOR_FPGA],
                                !.final_query = [issued |-> TRUE,
                                                 running_subtype |-> running_subtype,
                                                 path |-> path]]
            /\ pc' = "rp_close"
            /\ UNCHANGED <<stack, retval, outcome>>
       ELSE /\ Propagate("TimeoutError", "")
            /\ UNCHANGED rp
    /\ UNCHANGED <<progVars, devVars, op, rtVars, spVars, op_entry, reliable, ps, pf, rg, rec, da_device, sp_args>>

\* programmer.close(); versions_after; return versions_before, versions_after
ReleaseClose ==
    /\ pc = "rp_close"
    /\ progress' = Progress(100, "Complete")
    /\ last_call' = Call("close", path, "", "")
    /\ cnt' = Count("close")
    /\ opened' = IF opened = path THEN NoPath ELSE opened
    /\ rp' = [rp EXCEPT !.versions_after = VersionsList(rp.cur)]
    /\ pc' = "idle"
    /\ outcome' = Outcome("returned", "")
    /\ UNCHANGED <<progVars, dev_on, dev_mode, dev_reset, flash, stack, op, retval,
                   rtVars, spVars, op_entry, reliable, ps, pf, rg, rec, da_device, sp_args>>

NextRelease ==
    \/ ReleaseStart
    \/ ReleaseProbe
    \/ ReleaseProbeVersion
    \/ ReleaseProbeExcept
    \/ ReleaseProbeReopen
    \/ ReleaseVersionsBefore
    \/ ReleaseSegment
    \/ ReleaseSegmentReturn
    \/ ReleaseFinalQuery
    \/ ReleaseClose
    \/ ResetToNoop
    \/ ResetToPublish
    \/ ResetToClose
    \/ DeviceAwaitRemoval
    \/ DeviceAwaitAppear
    \/ ResetToOpen
    \/ SpAttempt
    \/ SpFail
    \/ SpErase
    \/ SpWrite
    \/ SpVerify
    \/ DeviceLeave
    \/ DeviceArrive
    \/ Tick

SpecRelease == InitRelease /\ [][NextRelease]_vars


(***************************************************************************)
(* release.py: release_to_segments                                         *)
(***************************************************************************)
\* An image is a sequence of bytes, 0..255.
\* b'joulescope_img_section\x0D\x0A \x0A \x1A  \xB2\x1C'
MAGIC_HEADER ==
    <<106, 111, 117, 108, 101, 115, 99, 111, 112, 101, 95, 105, 109, 103, 95, 115,
      101, 99, 116, 105, 111, 110, 13, 10, 32, 10, 32, 26, 32, 32, 178, 28>>
\* if len(img) < 1024
HeaderSize == 1024
\* img[32:36], img[288:292], img[296:298]
SizeOffset == 32
VersionOffset == 288
SubtypeOffset == 296

MinOf(a, b) == IF a < b THEN a ELSE b
\* b[lo:hi] and b[lo:] of Python, for 0 <= lo
Slice(b, lo, hi) == SubSeq(b, MinOf(lo, Len(b)) + 1, MinOf(hi, Len(b)))
SliceFrom(b, lo) == SubSeq(b, MinOf(lo, Len(b)) + 1, Len(b))

UnpackBigEndian(b) ==
    IF Len(b) = 2 THEN b[1] * 256 + b[2]
    ELSE b[1] * 16777216 + b[2] * 65536 + b[3] * 256 + b[4]

\* struct.unpack('<I', b)[0] of four bytes, struct.unpack('<H', b)[0] of two
Unpack(b) ==
    IF Len(b) = 2 THEN b[1] + b[2] * 256
    ELSE b[1] + b[2] * 256 + b[3] * 65536 + b[4] * 16777216

HasMagicAlways(img) == TRUE

\* img.startswith(MAGIC_HEADER)
HasMagic(img) == Slice(img, 0, Len(MAGIC_HEADER)) = MAGIC_HEADER

TooShortNever(img) == FALSE

\* len(img) < 1024
TooShort(img) == Len(img) < HeaderSize

\* segments[subtype] = entry
DictSet(d, key, entry) == [k \in DOMAIN d \cup {key} |-> IF k = key THEN entry ELSE d[k]]
EmptyDict == <<>>

InvalidImage == Outcome("RuntimeError", "invalid image")

\* The images release_to_segments is given: records laid end to end.  A record
\* is described by whether its preamble is intact, the value of its size
\* field, its version and subtype fields, and its length in bytes.
ImageRecord(magic, size, version, subtype, len) ==
    [magic |-> magic, size |-> size, version |-> version, subtype |-> subtype, len |-> len]
Zeros(n) == [i \in 1..n |-> 0]
Pack(n, width) == [i \in 1..width |-> IF i = 1 THEN n % 256
                                      ELSE IF i = 2 THEN (n \div 256) % 256
                                      ELSE IF i = 3 THEN (n \div 65536) % 256
                                      ELSE n \div 16777216]
Preamble(intact) ==
    IF intact THEN MAGIC_HEADER ELSE [MAGIC_HEADER EXCEPT ![Len(MAGIC_HEADER)] = 0]
RecordHead(r) ==
    Preamble(r.magic) \o Pack(r.size, 4) \o Zeros(VersionOffset - SizeOffset - 4)
        \o Pack(r.version, 4) \o Zeros(SubtypeOffset - VersionOffset - 4) \o Pack(r.subtype, 2)
RecordBytes(r) ==
    IF r.len <= Len(RecordHead(r)) THEN SubSeq(RecordHead(r), 1, r.len)
    ELSE RecordHead(r) \o Zeros(r.len - Len(RecordHead(r)))
RECURSIVE ImageBytes(_)
ImageBytes(records) ==
    IF records = <<>> THEN <<>>
    ELSE RecordBytes(Head(records)) \o ImageBytes(Tail(records))

\* The number of records of an image.
MaxRecords == 3
\* A value of the subtype field that is no key of TARGETS.
UnknownSubtype == CHOOSE n \in 0..65535 : n \notin DOMAIN TARGETS

RecordKinds ==
    { ImageRecord(TRUE, HeaderSize, V101, SUBTYPE_CTRL_UPDATER2, HeaderSize),
      ImageRecord(TRUE, HeaderSize + 1, V100, SUBTYPE_CTRL_UPDATER1, HeaderSize + 1),
      ImageRecord(TRUE, HeaderSize, V101, SUBTYPE_SENSOR_FPGA, HeaderSize),
      ImageRecord(TRUE, HeaderSize + 1, V101, SUBTYPE_CTRL_APP, HeaderSize + 1),
      \* the preamble is corrupt
      ImageRecord(FALSE, HeaderSize, V101, SUBTYPE_CTRL_APP, HeaderSize),
      \* the record is cut short
      ImageRecord(TRUE, HeaderSize - 1, V101, SUBTYPE_CTRL_APP, HeaderSize - 1),
      \* three bytes of trailing data
      ImageRecord(FALSE, 3, V101, SUBTYPE_CTRL_APP, 3),
      \* the size field leaves the last byte of the record over
      ImageRecord(TRUE, HeaderSize, V100, SUBTYPE_CTRL_UPDATER1, HeaderSize + 1),
      \* the size field reaches two bytes past the end of the record
      ImageRecord(TRUE, HeaderSize + 2, V101, SUBTYPE_SENSOR_FPGA, HeaderSize),
      \* the size field is 0
      ImageRecord(TRUE, 0, V101, SUBTYPE_CTRL_APP, HeaderSize),
      \* the size field is smaller than the header
      ImageRecord(TRUE, HeaderSize \div 2, V101, SUBTYPE_CTRL_UPDATER2, HeaderSize),
      \* the subtype field holds no subtype of TARGETS
      ImageRecord(TRUE, HeaderSize, V101, UnknownSubtype, HeaderSize) }

RecordLists == UNION {[1..n -> RecordKinds] : n \in 0..MaxRecords}

\* release_to_segments(img) is called.
InitParse ==
    \E records \in RecordLists :
        /\ ps = [records |-> records, image |-> ImageBytes(records), img |-> ImageBytes(records),
                 segments |-> EmptyDict, result |-> NoResult]
        /\ pc = "rts_while" /\ stack = <<>>
        /\ op = Op("release_to_segments", None, None)
        /\ outcome = Running /\ retval = None
        /\ LET p == ProgrammerInit(DevAppPath) IN
              /\ path = p.path
              /\ running_subtype = p.running_subtype
              /\ path_app = p.path_app
              /\ path_updater = p.path_updater
        /\ rt_target = None /\ da_path = NoPath /\ expired = FALSE
        /\ seg = NoSegment /\ attempt = 0
        /\ dev_on = TRUE /\ dev_mode = SUBTYPE_CTRL_APP /\ dev_reset = None
        /\ flash = [s \in Subtypes |-> V100]
        /\ opened = NoPath
        /\ last_call = NoCall /\ cnt = NoCalls /\ rt_log = <<>>
        /\ rt_entry = NoResetTo
        /\ last_poll = NoPoll
        /\ op_entry = NoEntry
        /\ readback = NoReadback
        /\ rp = NoRelease
        /\ reliable = FALSE
        /\ pf = NoPure
        /\ rg = NoGet
        /\ sp_args = NoArgs
        /\ progress = NoProgress
        /\ da_device = "none"
        /\ rec = NoRecord

parseFrame == <<progVars, devVars, stack, op, retval, rtVars, spVars, last_call, cnt,
                op_entry, rp, reliable, pf, rg, sp_args, progress, da_device, rec>>

\* One pass of "while len(img):", from the two checks to "img = img[sz:]".
ParseWhile ==
    /\ pc = "rts_while"
    /\ Len(ps.img) # 0
    /\ LET img == ps.img IN
       IF ~HasMagic(img) \/ TooShort(img)
       THEN /\ pc' = "idle"
            /\ outcome' = InvalidImage
            /\ UNCHANGED ps
       ELSE LET sz == Unpack(Slice(img, SizeOffset, SizeOffset + 4))
                ver == Unpack(Slice(img, VersionOffset, VersionOffset + 4))
                subtype == Unpack(Slice(img, SubtypeOffset, SubtypeOffset + 2)) IN
            IF subtype \notin DOMAIN TARGETS
            THEN /\ pc' = "idle"
                 /\ outcome' = Outcome("KeyError", "")
                 /\ UNCHANGED ps
            ELSE /\ ps' = [ps EXCEPT
                             !.segments = DictSet(@, subtype,
                                 [subtype |-> subtype, name |-> TARGETS[subtype].name,
                                  version |-> ver, img |-> Slice(img, 0, sz)]),
                             !.img = SliceFrom(img, sz)]
                 /\ UNCHANGED <<pc, outcome>>
    /\ UNCHANGED parseFrame

\* The loop has ended: return segments
ParseReturn ==
    /\ pc = "rts_while"
    /\ Len(ps.img) = 0
    /\ ps' = [ps EXCEPT !.result = [returned |-> TRUE, segments |-> ps.segments]]
    /\ pc' = "idle"
    /\ outcome' = Outcome("returned", "")
    /\ UNCHANGED parseFrame

NextParse ==
    \/ ParseWhile
    \/ ParseReturn

SpecParse == InitParse /\ [][NextParse]_vars

(***************************************************************************)
(* release_program from its first statement: release_to_segments(image),   *)
(* then the run as above; the program keeps taking steps and the clock     *)
(* passes every deadline                                                   *)
(***************************************************************************)
\* The images of these runs, as lists of records: no record, one well-formed
\* ctrl_updater2 record, one record whose size field is 0.
RunRecords ==
    { <<>>,
      <<ImageRecord(TRUE, HeaderSize, V101, SUBTYPE_CTRL_UPDATER2, HeaderSize)>>,
      <<ImageRecord(TRUE, 0, V101, SUBTYPE_CTRL_APP, HeaderSize)>> }

\* release_program(driver, device_path, image) is entered: the device
\* enumerated and open on device_path.
InitRun ==
    \E device_path \in Paths, mode \in CtrlSubtypes, records \in RunRecords :
        /\ (mode = SUBTYPE_CTRL_APP) <=> (device_path = DevAppPath)
        /\ LET p == ProgrammerInit(device_path) IN
              /\ path = p.path
              /\ running_subtype = p.running_subtype
              /\ path_app = p.path_app
              /\ path_updater = p.path_updater
              /\ op_entry = [running_subtype |-> p.running_subtype, path |-> p.path,
                             opened |-> device_path, in_sync |-> TRUE]
        /\ pc = "rts_while" /\ stack = <<>>
        /\ op = Op("release_program", None, None)
        /\ outcome = Running /\ retval = None
        /\ rt_target = None /\ da_path = NoPath /\ expired = FALSE
        /\ seg = NoSegment /\ attempt = 0
        /\ dev_on = TRUE /\ dev_mode = mode /\ dev_reset = None
        /\ flash = [s \in Subtypes |-> V100]
        /\ opened = device_path
        /\ last_call = NoCall /\ cnt = NoCalls /\ rt_log = <<>>
        /\ rt_entry = NoResetTo
        /\ last_poll = NoPoll
        /\ readback = NoReadback
        /\ rp = [NoRelease EXCEPT !.flash0 = [s \in Subtypes |-> V100]]
        /\ reliable = FALSE
        /\ ps = [records |-> records, image |-> ImageBytes(records),
                 img |-> ImageBytes(records), segments |-> EmptyDict, result |-> NoResult]
        /\ pf = NoPure
        /\ rg = NoGet
        /\ sp_args = NoArgs
        /\ progress = NoProgress
        /\ da_device = "none"
        /\ rec = NoRecord

InRun == op.name = "release_program"

\* segments = release_to_segments(image) has returned.
ReleaseParsed ==
    /\ pc = "rts_while"
    /\ InRun
    /\ Len(ps.img) = 0
    /\ ps' = [ps EXCEPT !.result = [returned |-> TRUE, segments |-> ps.segments]]
    /\ rp' = [rp EXCEPT !.segments =
                 [s \in Subtypes |-> IF s \in DOMAIN ps.segments
                                     THEN Segment(s, ps.segments[s].version)
                                     ELSE NoSegment]]
    /\ pc' = "rp_start"
    /\ UNCHANGED <<progVars, devVars, stack, op, outcome, retval, rtVars, spVars, last_call,
                   cnt, op_entry, reliable, pf, rg, rec, da_device, sp_args, progress>>

\* The steps of the program, those of the device and the clock left out.
ProgramStep ==
    \/ ParseWhile
    \/ ReleaseParsed
    \/ ReleaseStart
    \/ ReleaseProbe
    \/ ReleaseProbeVersion
    \/ ReleaseProbeExcept
    \/ ReleaseProbeReopen
    \/ ReleaseVersionsBefore
    \/ ReleaseSegment
    \/ ReleaseSegmentReturn
    \/ ReleaseFinalQuery
    \/ ReleaseClose
    \/ ResetToNoop
    \/ ResetToPublish
    \/ ResetToClose
    \/ DeviceAwaitRemoval
    \/ DeviceAwaitAppear
    \/ ResetToOpen
    \/ SpAttempt
    \/ SpFail
    \/ SpErase
    \/ SpWrite
    \/ SpVerify

NextRun ==
    \/ ProgramStep
    \/ DeviceLeave
    \/ DeviceArrive
    \/ Tick

SpecRun == InitRun /\ [][NextRun]_vars /\ WF_vars(ProgramStep) /\ WF_vars(Tick)

(***************************************************************************)
(* Calls of version_to_str and of the constructor Programmer(driver,       *)
(* device_path) on arguments drawn from bounded sets                       *)
(***************************************************************************)
\* Everything but the call under consideration is at rest.
AtRest ==
    /\ stack = <<>> /\ outcome = Running /\ retval = None
    /\ rt_target = None /\ da_path = NoPath /\ expired = FALSE
    /\ seg = NoSegment /\ attempt = 0
    /\ dev_on = TRUE /\ dev_mode = SUBTYPE_CTRL_APP /\ dev_reset = None
    /\ flash = [s \in Subtypes |-> V100]
    /\ opened = NoPath
    /\ last_call = NoCall /\ cnt = NoCalls /\ rt_log = <<>>
    /\ rt_entry = NoResetTo
    /\ last_poll = NoPoll
    /\ op_entry = NoEntry
    /\ readback = NoReadback
    /\ rp = NoRelease
    /\ reliable = FALSE
    /\ sp_args = NoArgs
    /\ progress = NoProgress
    /\ da_device = "none"
    /\ rec = NoRecord

\* The arguments of version_to_str: None, strings, and the integers packed
\* from these major, minor and patch numbers.
Majors == {0, 1, 127}
Minors == {0, 2, 255}
Patches == {0, 3, 256, 65535}
VersionStrings == {"", "1.2.3", "custom"}

\* The device paths: strings of MinPathLen to MaxPathLen of these characters.
\* An app path has no marker at index 2; its updater spelling has it inserted
\* there.
PathChars == {"u", "/", "&", "j"}
MinPathLen == 3
MaxPathLen == 4
AppPaths ==
    {p \in UNION {[1..n -> PathChars] : n \in MinPathLen..MaxPathLen} : p[3] # "&"}
UpdaterSpelling(p) == <<p[1], p[2], "&">> \o [i \in 1..(Len(p) - 2) |-> p[i + 2]]

InitPure ==
    /\ AtRest
    /\ ps = NoParse /\ rg = NoGet
    /\ \/ /\ \/ \E major \in Majors, minor \in Minors, patch \in Patches :
                   pf = [NoPure EXCEPT !.fn = "version_to_str",
                                       !.version = PyInt(VerPack(major, minor, patch)),
                                       !.parts = <<major, minor, patch>>]
             \/ pf = [NoPure EXCEPT !.fn = "version_to_str", !.version = PyNone]
             \/ \E str \in VersionStrings :
                   pf = [NoPure EXCEPT !.fn = "version_to_str", !.version = PyStr(str)]
          /\ pc = "vts_call"
          /\ op = Op("version_to_str", None, None)
       \/ /\ \E p \in AppPaths : \E device_path \in {p, UpdaterSpelling(p)} :
                   pf = [NoPure EXCEPT !.fn = "Programmer", !.device_path = device_path,
                                       !.path_app = p]
          /\ pc = "init_call"
          /\ op = Op("Programmer", None, None)
    \* the Programmer is not constructed yet
    /\ path = NoPath /\ running_subtype = None /\ path_app = NoPath /\ path_updater = NoPath

pureFrame == <<devVars, stack, op, retval, rtVars, spVars, last_call, cnt,
               op_entry, rp, reliable, ps, rg, sp_args, progress, da_device, rec>>

\* version_to_str(version) returns.
VersionToStrCall ==
    /\ pc = "vts_call"
    /\ pf' = [pf EXCEPT !.str = version_to_str(pf.version), !.done = TRUE]
    /\ pc' = "idle"
    /\ outcome' = Outcome("returned", "")
    /\ UNCHANGED <<pureFrame, progVars>>

\* Programmer(driver, device_path) returns.
ProgrammerCall ==
    /\ pc = "init_call"
    /\ LET p == ProgrammerInit(pf.device_path) IN
          /\ path' = p.path
          /\ running_subtype' = p.running_subtype
          /\ path_app' = p.path_app
          /\ path_updater' = p.path_updater
    /\ pf' = [pf EXCEPT !.done = TRUE]
    /\ pc' = "idle"
    /\ outcome' = Outcome("returned", "")
    /\ UNCHANGED pureFrame

NextPure ==
    \/ VersionToStrCall
    \/ ProgrammerCall

SpecPure == InitPure /\ [][NextPure]_vars

(***************************************************************************)
(* release.py: release_get and releases_get_from_network                   *)
(***************************************************************************)
Channels == {MATURITY[i] : i \in DOMAIN MATURITY}
\* The maturity arguments: None, the three channels, spellings with capitals,
\* and a name that is no channel.
MaturityArgs ==
    {PyNone, PyStr("alpha"), PyStr("beta"), PyStr("stable"), PyStr("STABLE"), PyStr("Beta"),
     PyStr("nightly")}
\* str.lower() on these arguments
Lower(str) ==
    CASE str = "STABLE" -> "stable"
      [] str = "Beta" -> "beta"
      [] OTHER -> str

\* The image files found in a directory before the call: each an image that
\* starts with the magic preamble, told apart by directory and channel.
DirectoryTag(d) == IF d = "dist" THEN 1 ELSE 2
ChannelTag(m) == CHOOSE i \in DOMAIN MATURITY : MATURITY[i] = m
LocalImage(d, m) == MAGIC_HEADER \o <<DirectoryTag(d), ChannelTag(m)>>
LocalCopies == {{}, {"stable"}, Channels}
FilesWith(dist, release) ==
    [d \in Directories |-> [m \in Channels |->
        IF m \in (IF d = "dist" THEN dist ELSE release) THEN File(LocalImage(d, m)) ELSE NoFile]]

\* The server: it serves index.json and, per target and channel, an image
\* section that carries the target's subtype ("ok"); or it does not answer
\* with status 200 ("down"); or the stable image it lists for ctrl_updater1
\* carries the subtype of ctrl_app ("mismatch").
Servers == {"ok", "down", "mismatch"}
ServedSubtype(server, subtype, m) ==
    IF server = "mismatch" /\ subtype = SUBTYPE_CTRL_UPDATER1 /\ m = "stable"
    THEN SUBTYPE_CTRL_APP ELSE subtype
ServedImage(server, subtype, m) ==
    RecordHead(ImageRecord(TRUE, HeaderSize, V101, ServedSubtype(server, subtype, m), HeaderSize))

\* TARGETS.values(), in the order of insertion
TargetsValues ==
    <<SUBTYPE_CTRL_UPDATER2, SUBTYPE_CTRL_UPDATER1, SUBTYPE_SENSOR_FPGA, SUBTYPE_CTRL_APP>>

\* The url_save calls of _load_from_network with force_download: index.json,
\* then image and changelog per target and channel.
UrlSaves == 1 + Len(TargetsValues) * Len(MATURITY) * 2

\* The first target whose downloaded image of channel m fails
\* "target_info['subtype'] != subtype", 0 when there is none.
FirstMismatch(server, m) ==
    LET bad == {i \in DOMAIN TargetsValues :
                   Unpack(Slice(ServedImage(server, TargetsValues[i], m),
                                SubtypeOffset, SubtypeOffset + 2)) # TargetsValues[i]} IN
    IF bad = {} THEN 0 ELSE CHOOSE i \in bad : \A j \in bad : i <= j
\* What f.write(img) has put into img_<m>.img after the first n targets.
RECURSIVE Written(_, _, _)
Written(server, m, n) ==
    IF n = 0 THEN <<>>
    ELSE Written(server, m, n - 1) \o ServedImage(server, TargetsValues[n], m)
\* The first channel the loop "for m in MATURITY" fails in, 0 when in none.
FirstFailed(server) ==
    LET bad == {k \in DOMAIN MATURITY : FirstMismatch(server, MATURITY[k]) # 0} IN
    IF bad = {} THEN 0 ELSE CHOOSE k \in bad : \A j \in bad : k <= j
\* The files after the loop, run to its end or to the RuntimeError.
FilesWritten(files, server) ==
    [files EXCEPT !["release"] = [m \in Channels |->
        LET k == ChannelTag(m)
            stop == FirstFailed(server) IN
        IF stop = 0 \/ k < stop THEN File(Written(server, m, Len(TargetsValues)))
        ELSE IF k = stop THEN File(Written(server, m, FirstMismatch(server, m) - 1))
        ELSE files["release"][m]]]

LocalSourceDistFirst(files, m) ==
    IF files["dist"][m].exists THEN "dist"
    ELSE IF files["release"][m].exists THEN "release"
    ELSE "None"

\* src after the two lookups: dist_path() first, release_path() second, the
\* second overriding the first.
LocalSource(files, m) ==
    IF files["release"][m].exists THEN "release"
    ELSE IF files["dist"][m].exists THEN "dist"
    ELSE "None"

\* release_get(maturity, force_download) is called.
InitGet ==
    /\ AtRest
    /\ ps = NoParse /\ pf = NoPure
    /\ \E maturity \in MaturityArgs, force_download \in BOOLEAN, server \in Servers,
          dist \in LocalCopies, release \in LocalCopies :
          rg = [NoGet EXCEPT !.maturity = maturity, !.force_download = force_download,
                             !.server = server,
                             !.files = FilesWith(dist, release),
                             !.files0 = FilesWith(dist, release)]
    /\ pc = "rg_start"
    /\ op = Op("release_get", None, None)
    /\ path = NoPath /\ running_subtype = None /\ path_app = NoPath /\ path_updater = NoPath

getFrame == <<progVars, devVars, op, rtVars, spVars, last_call, cnt,
              op_entry, rp, reliable, ps, pf, sp_args, progress, da_device, rec>>

\* "if maturity is None" to "raise ValueError"
ReleaseGetMaturity ==
    /\ pc = "rg_start"
    /\ LET maturity == IF rg.maturity.type = "NoneType" THEN "stable"
                       ELSE Lower(rg.maturity.str) IN
       IF maturity \notin Channels
       THEN /\ Raise("ValueError", "")
            /\ UNCHANGED rg
       ELSE /\ rg' = [rg EXCEPT !.m = maturity]
            /\ pc' = "rg_local"
            /\ UNCHANGED <<stack, retval, outcome>>
    /\ UNCHANGED getFrame

\* The two "if not force_download" lookups with os.path.isfile
ReleaseGetLocal ==
    /\ pc = "rg_local"
    /\ IF rg.force_download
       THEN /\ pc' = "rg_network"
            /\ UNCHANGED rg
       ELSE /\ rg' = [rg EXCEPT !.src = LocalSource(rg.files, rg.m), !.accessed = TRUE]
            /\ pc' = IF LocalSource(rg.files, rg.m) = "None" THEN "rg_network" ELSE "rg_read"
    /\ UNCHANGED <<getFrame, stack, retval, outcome>>

\* releases_get_from_network(force_download=True), then
\* src = os.path.join(release_path(), fname)
ReleaseGetNetwork ==
    /\ pc = "rg_network"
    /\ CASE rg.server = "down" ->
              /\ rg' = [rg EXCEPT !.accessed = TRUE, !.url_saves = 1]
              /\ Raise("FileNotFoundError", "index.json")
         [] FirstFailed(rg.server) # 0 ->
              /\ rg' = [rg EXCEPT !.accessed = TRUE, !.url_saves = UrlSaves,
                                  !.files = FilesWritten(rg.files, rg.server)]
              /\ Raise("RuntimeError", "subtype mismatch")
         [] OTHER ->
              /\ rg' = [rg EXCEPT !.accessed = TRUE, !.url_saves = UrlSaves,
                                  !.files = FilesWritten(rg.files, rg.server),
                                  !.src = "release"]
              /\ pc' = "rg_read"
              /\ UNCHANGED <<stack, retval, outcome>>
    /\ UNCHANGED getFrame

\* with open(src, 'rb') as f: return f.read()
ReleaseGetRead ==
    /\ pc = "rg_read"
    /\ rg' = [rg EXCEPT !.result = rg.files[rg.src][rg.m].bytes, !.accessed = TRUE]
    /\ pc' = "idle"
    /\ outcome' = Outcome("returned", "")
    /\ UNCHANGED <<getFrame, stack, retval>>

NextGet ==
    \/ ReleaseGetMaturity
    \/ ReleaseGetLocal
    \/ ReleaseGetNetwork
    \/ ReleaseGetRead

SpecGet == InitGet /\ [][NextGet]_vars


(***************************************************************************)
(* record.py: Record.open, Record.close and the data callback, against a   *)
(* driver that keeps the subscriptions and a device that may leave a       *)
(* publish unacknowledged                                                  *)
(***************************************************************************)
\* _SIGNALS, the entries the recordings below use.
SIGNALS ==
    [current |-> [ctrl_topic |-> "s/i/ctrl", data_topic |-> "s/i/!data"],
     voltage |-> [ctrl_topic |-> "s/v/ctrl", data_topic |-> "s/v/!data"],
     power   |-> [ctrl_topic |-> "s/p/ctrl", data_topic |-> "s/p/!data"]]

\* _signal_name_map(): every name and every short name to the name.
SignalNameMap ==
    [n \in {"current", "i", "voltage", "v", "power", "p"} |->
        IF n \in {"current", "i"} THEN "current"
        ELSE IF n \in {"voltage", "v"} THEN "voltage"
        ELSE "power"]

RecordDevicePath == "u/js220/000123"

\* signal['data_topic_abs']
DataTopicAbs(name) == <<RecordDevicePath, SIGNALS[name].data_topic>>

\* The keys of a dict filled in the order of names: a name given twice keeps
\* its first place.
RECURSIVE DictKeys(_)
DictKeys(names) ==
    IF names = <<>> THEN <<>>
    ELSE LET front == DictKeys(SubSeq(names, 1, Len(names) - 1))
             name == names[Len(names)]
         IN  IF \E k \in 1..Len(front) : front[k] = name THEN front
             ELSE Append(front, name)

\* The signals argument of the constructor: None or a list of names.
SignalsArg(none, names) == [none |-> none, names |-> names]
SignalsArgs ==
    {SignalsArg(TRUE, <<>>),
     SignalsArg(FALSE, <<"current">>),
     SignalsArg(FALSE, <<"i", "current">>),
     SignalsArg(FALSE, <<"v", "p", "i">>)}

\* self._on_data_fn: the bound method saved by the constructor.  The driver
\* tells callbacks apart by object.
SavedCallback(r) == r.on_data_fn

\* Record(driver, device_path, signals)
RecordInit(arg) ==
    LET given == IF arg.none THEN <<"current", "voltage">> ELSE arg.names
        names == [k \in 1..Len(given) |-> SignalNameMap[given[k]]]
        keys == DictKeys(names)
    IN  [NoRecord EXCEPT
            !.signals = keys,
            !.signal_id = [k \in 1..Len(keys) |->
                              CHOOSE n \in 1..Len(names) :
                                  /\ names[n] = keys[k]
                                  /\ \A m \in (n + 1)..Len(names) : names[m] # keys[k]],
            !.on_data_fn = 1,
            !.pc = "idle"]

\* The recordings one Record makes.
MaxRecordings == 2
Filenames == {"a.jls", "b.jls"}

\* A pyjls Writer: its file, whether it is open, the signals defined in it.
Writer(filename) == [filename |-> filename, open |-> TRUE, defined |-> {}]

\* The outcomes of Driver.publish: acknowledged, unacknowledged within the
\* timeout, or failed otherwise.
PublishResults == {"ok", "TimeoutError", "RuntimeError"}

\* The except clauses of close around its publish: TimeoutError alone, and
\* TimeoutError followed by Exception as the code has them.
OnlyTimeoutCaught(result) == result = "TimeoutError"
ClosePublishCaught(result) == result = "TimeoutError" \/ result \in PublishResults \ {"ok"}

\* Driver.subscribe(topic, ['pub'], fn) and Driver.unsubscribe(topic, fn): the
\* driver keeps one entry per subscribe and drops the first entry of the same
\* topic and the same callback object.
Subscription(topic, fn) == <<topic, fn>>
RECURSIVE DriverUnsubscribe(_, _)
DriverUnsubscribe(subs, s) ==
    IF subs = <<>> THEN <<>>
    ELSE IF Head(subs) = s THEN Tail(subs)
    ELSE <<Head(subs)>> \o DriverUnsubscribe(Tail(subs), s)

InitRecord ==
    /\ \E arg \in SignalsArgs : rec = RecordInit(arg)
    /\ pc = "idle" /\ stack = <<>> /\ op = NoOp /\ outcome = Running /\ retval = None
    /\ path = NoPath /\ running_subtype = None /\ path_app = NoPath /\ path_updater = NoPath
    /\ rt_target = None /\ da_path = NoPath /\ expired = FALSE
    /\ seg = NoSegment /\ attempt = 0
    /\ dev_on = TRUE /\ dev_mode = SUBTYPE_CTRL_APP /\ dev_reset = None
    /\ flash = [s \in Subtypes |-> V100]
    /\ opened = NoPath
    /\ last_call = NoCall /\ cnt = NoCalls /\ rt_log = <<>>
    /\ rt_entry = NoResetTo
    /\ last_poll = NoPoll
    /\ op_entry = NoEntry
    /\ readback = NoReadback
    /\ rp = NoRelease /\ reliable = FALSE
    /\ ps = NoParse /\ pf = NoPure /\ rg = NoGet
    /\ sp_args = NoArgs /\ progress = NoProgress
    /\ da_device = "none"

recordFrame == <<progVars, devVars, pc, stack, op, outcome, retval, rtVars, spVars,
                 last_call, cnt, op_entry, rp, reliable, ps, pf, rg, sp_args, progress,
                 da_device>>

\* open(filename), line 177: an open Record closes first.
RecordOpen ==
    /\ rec.pc = "idle"
    /\ Len(rec.writers) < MaxRecordings
    /\ \E filename \in Filenames :
          rec' = [rec EXCEPT !.filename = filename,
                             !.was_open = (rec.wr # 0),
                             !.outcome = "",
                             !.caller = IF rec.wr # 0 THEN "open" ELSE "",
                             !.pc = IF rec.wr # 0 THEN "close_publish" ELSE "open_writer",
                             !.i = 1]
    /\ UNCHANGED recordFrame

\* open, lines 179-191: the data map is cleared and the Writer is made and
\* given its source.
RecordOpenWriter ==
    /\ rec.pc = "open_writer"
    /\ rec' = [rec EXCEPT !.data_map = {},
                          !.writers = Append(rec.writers, Writer(rec.filename)),
                          !.wr = Len(rec.writers) + 1,
                          !.subscribed = <<>>, !.unsubscribed = <<>>, !.zeros = {},
                          !.failed = {},
                          !.last = "none",
                          !.pc = "open_subscribe", !.i = 1]
    /\ UNCHANGED recordFrame

\* open, lines 193-196: one pass of the loop that subscribes.
RecordOpenSubscribe ==
    /\ rec.pc = "open_subscribe"
    /\ IF rec.i > Len(rec.signals)
       THEN rec' = [rec EXCEPT !.pc = "open_publish", !.i = 1]
       ELSE LET data_topic == DataTopicAbs(rec.signals[rec.i])
                s == Subscription(data_topic, SavedCallback(rec))
            IN  rec' = [rec EXCEPT !.data_map = rec.data_map \cup {data_topic},
                                   !.subs = Append(rec.subs, s),
                                   !.subscribed = Append(rec.subscribed, s),
                                   !.i = rec.i + 1]
    /\ UNCHANGED recordFrame

\* open, lines 198-202: one pass of the loop that publishes 1, and the return.
\* A publish that fails ends open with its exception.
RecordOpenPublish ==
    /\ rec.pc = "open_publish"
    /\ IF rec.i > Len(rec.signals)
       THEN rec' = [rec EXCEPT !.pc = "idle", !.i = 0, !.outcome = "returned",
                               !.last = "open"]
       ELSE \E result \in PublishResults :
               IF result = "ok"
               THEN rec' = [rec EXCEPT !.i = rec.i + 1]
               ELSE rec' = [rec EXCEPT !.pc = "idle", !.i = 0, !.outcome = result,
                                       !.last = "open"]
    /\ UNCHANGED recordFrame

\* close(), called on an open Record.
RecordClose ==
    /\ rec.pc = "idle"
    /\ rec.wr # 0
    /\ rec' = [rec EXCEPT !.caller = "", !.outcome = "", !.pc = "close_publish", !.i = 1]
    /\ UNCHANGED recordFrame

\* close, lines 209-218: one pass of the loop that writes the pending UTC
\* entry and publishes 0; the except clauses log and go on.
RecordClosePublish ==
    /\ rec.pc = "close_publish"
    /\ IF rec.i > Len(rec.signals)
       THEN rec' = [rec EXCEPT !.pc = "close_unsubscribe", !.i = 1]
       ELSE \E result \in PublishResults :
               LET ctrl_topic == SIGNALS[rec.signals[rec.i]].ctrl_topic
                   sent == [rec EXCEPT !.zeros = rec.zeros \cup {ctrl_topic},
                                       !.failed = IF result = "ok" THEN rec.failed
                                                  ELSE rec.failed \cup {ctrl_topic}]
               IN  IF result = "ok" \/ ClosePublishCaught(result)
                   THEN rec' = [sent EXCEPT !.i = rec.i + 1]
                   ELSE rec' = [sent EXCEPT !.exc = result, !.pc = "close_finally"]
    /\ UNCHANGED recordFrame

\* close, lines 219-220: one pass of the loop that unsubscribes.
RecordCloseUnsubscribe ==
    /\ rec.pc = "close_unsubscribe"
    /\ IF rec.i > Len(rec.signals)
       THEN rec' = [rec EXCEPT !.pc = "close_finally"]
       ELSE LET s == Subscription(DataTopicAbs(rec.signals[rec.i]), SavedCallback(rec))
            IN  rec' = [rec EXCEPT !.subs = DriverUnsubscribe(rec.subs, s),
                                   !.unsubscribed = Append(rec.unsubscribed, s),
                                   !.i = rec.i + 1]
    /\ UNCHANGED recordFrame

\* close, lines 221-223: the writer is closed and cleared, on the way out of
\* the try block with or without an exception; open goes on after its close.
RecordCloseFinally ==
    /\ rec.pc = "close_finally"
    /\ LET closed == [rec EXCEPT !.writers[rec.wr].open = FALSE, !.wr = 0, !.i = 0,
                                 !.exc = "", !.last = "close"]
       IN  rec' = IF rec.exc # ""
                  THEN [closed EXCEPT !.pc = "idle", !.outcome = rec.exc]
                  ELSE IF rec.caller = "open"
                  THEN [closed EXCEPT !.pc = "open_writer"]
                  ELSE [closed EXCEPT !.pc = "idle", !.outcome = "returned"]
    /\ UNCHANGED recordFrame

\* _on_data(topic, value), lines 225-257, called by the driver for a
\* subscription of the topic: due is value['utc'] >= signal['utc_next'],
\* sample_id the quotient of line 230.
RecordOnData ==
    /\ rec.wr # 0
    /\ \E k \in 1..Len(rec.signals), due \in BOOLEAN, sample_id \in 0..1 :
          LET name == rec.signals[k]
              topic == DataTopicAbs(name)
              first == name \notin rec.utc_next
          IN  /\ \E n \in 1..Len(rec.subs) : rec.subs[n][1] = topic
              /\ topic \in rec.data_map
              /\ first => ~due
              /\ rec' = [rec EXCEPT
                    !.utc_next = rec.utc_next \cup {name},
                    !.writers[rec.wr].defined =
                        IF first THEN rec.writers[rec.wr].defined \cup {rec.signal_id[k]}
                        ELSE rec.writers[rec.wr].defined,
                    !.utc = IF due THEN rec.utc \ {name}
                            ELSE IF sample_id # 0 THEN rec.utc \cup {name}
                            ELSE rec.utc]
    /\ UNCHANGED recordFrame

NextRecord ==
    \/ RecordOpen
    \/ RecordOpenWriter
    \/ RecordOpenSubscribe
    \/ RecordOpenPublish
    \/ RecordClose
    \/ RecordClosePublish
    \/ RecordCloseUnsubscribe
    \/ RecordCloseFinally
    \/ RecordOnData

SpecRecord == InitRecord /\ [][NextRecord]_vars


(***************************************************************************)
(* Properties                                                              *)
(***************************************************************************)
IsPrefix(a, b) == Len(a) <= Len(b) /\ SubSeq(b, 1, Len(a)) = a

\* C1: whenever segment_program has issued the erase or the write request for
\* the ctrl_updater1 region, running_subtype is ctrl_updater2, and whenever it
\* has issued them for the ctrl_updater2 region, running_subtype is
\* ctrl_updater1 - in the first attempt and in every retry.
C1_UpdaterErasedWhileOtherRuns ==
    last_call.kind \in {"erase", "write"} =>
        /\ last_call.topic = "h/mem/c/upd1" => running_subtype = SUBTYPE_CTRL_UPDATER2
        /\ last_call.topic = "h/mem/c/upd2" => running_subtype = SUBTYPE_CTRL_UPDATER1

\* C1 witness: a retry has issued the erase of the ctrl_updater1 region.
C1_Witness ==
    /\ last_call.kind = "erase"
    /\ last_call.topic = "h/mem/c/upd1"
    /\ attempt > 0
    /\ running_subtype = SUBTYPE_CTRL_UPDATER2

\* C2: a TimeoutError raised inside an attempt of segment_program (by the
\* erase, the write or the reset_to await) does not reach the caller:
\* segment_program ends by returning, or with the fatal error after 10 failed
\* attempts.
C2_TimeoutNotPropagated ==
    (pc = "idle" /\ op.name = "segment_program") => outcome.kind # "TimeoutError"

\* C3: for a segment whose subtype has a reset-name, segment_program raises the
\* fatal error only after exactly 10 attempts, each with one erase and one
\* write request, and the error names the target; a read-back that does not
\* match only moves on to the next attempt.
C3_TenAttemptsThenFatal ==
    (op.name = "segment_program" /\ op.subtype \in CtrlSubtypes) =>
        /\ attempt <= 10
        /\ pc = "sp_attempt" => (cnt["erase"] = attempt /\ cnt["write"] = attempt)
        /\ (pc = "sp_attempt" /\ attempt < 10) => outcome.kind = "running"
        /\ outcome.kind = "RuntimeError" =>
              /\ attempt = 10
              /\ cnt["erase"] = 10
              /\ cnt["write"] = 10
              /\ outcome.name = TARGETS[op.subtype].name
        /\ (pc = "idle" /\ attempt = 10) => outcome.kind = "RuntimeError"

\* C3 witness: ten read-backs of a ctrl_app segment failed to match and the
\* fatal error was raised.
C3_Witness ==
    /\ pc = "idle"
    /\ op.name = "segment_program"
    /\ op.subtype = SUBTYPE_CTRL_APP
    /\ outcome = Outcome("RuntimeError", "ctrl_app")
    /\ cnt["erase"] = 10

\* C4: for a segment whose subtype has a reset-name, segment_program returns
\* only when, after the write and after reset_to(subtype) completed, the
\* target_id read back is the registry's for that subtype and the version read
\* back is the segment's; it then returns that version with
\* running_subtype = subtype.
C4_ReturnOnlyWhenVerified ==
    (pc = "idle" /\ op.name = "segment_program" /\ op.subtype \in CtrlSubtypes
        /\ outcome.kind = "returned") =>
        /\ readback.target_id = TARGETS[op.subtype].target_id
        /\ readback.version = op.version
        /\ retval = op.version
        /\ running_subtype = op.subtype
        /\ rt_target = op.subtype /\ rt_entry.state = "returned"
        /\ cnt["write"] = attempt + 1

\* C4 witness: a ctrl_updater2 segment was programmed and verified in a retry.
C4_Witness ==
    /\ pc = "idle"
    /\ op.name = "segment_program"
    /\ op.subtype = SUBTYPE_CTRL_UPDATER2
    /\ outcome.kind = "returned"
    /\ attempt > 0
    /\ retval = V101

\* C5: reset_to(target) entered with running_subtype = target makes no Driver
\* call and leaves the current path and running_subtype as they were.
C5_ResetToSameIsNoop ==
    /\ (rt_entry.state \in {"active", "returned"} /\ rt_entry.running_subtype = rt_target) =>
          /\ rt_log = <<>>
          /\ pc \notin {"rt_close", "da_removal", "da_appear", "rt_open"}
          /\ path = rt_entry.path
          /\ running_subtype = rt_entry.running_subtype
    /\ (pc = "idle" /\ op.name = "reset_to" /\ op_entry.running_subtype = op.subtype) =>
          /\ outcome.kind = "returned"
          /\ cnt = NoCalls
          /\ last_call = NoCall
          /\ path = op_entry.path
          /\ running_subtype = op_entry.running_subtype

\* C5 witness: a client's reset_to(ctrl_updater1) has returned, entered while
\* running_subtype was ctrl_updater1.
C5_Witness ==
    /\ pc = "idle"
    /\ op = Op("reset_to", SUBTYPE_CTRL_UPDATER1, None)
    /\ op_entry.running_subtype = SUBTYPE_CTRL_UPDATER1
    /\ outcome.kind = "returned"


\* The steps reset_to(target) is to take from entry_path, in their order.
ExpectedResetSteps(entry_path, target) ==
    LET name == CASE target = SUBTYPE_CTRL_UPDATER1 -> "update1"
                  [] target = SUBTYPE_CTRL_UPDATER2 -> "update2"
                  [] OTHER -> "app"
        awaited == IF target = SUBTYPE_CTRL_APP THEN DevAppPath ELSE DevUpdPath
    IN  << Step("publish", entry_path, name),
           Step("close", entry_path, ""),
           Step("removed", entry_path, ""),
           Step("appeared", awaited, ""),
           Step("adopt", awaited, ""),
           Step("set", awaited, name),
           Step("open", awaited, "") >>

\* A poll that only repeats: the awaited change was not observed.
IsStep(e) == e.step \notin {"poll", "wait"}

\* C6: entered with running_subtype # target, reset_to(target) takes its steps
\* in this order: publish the reset name of target on the current path, close
\* the current path, observe the current path absent, observe the awaited path
\* (the app path for ctrl_app, the updater path otherwise), adopt it, set
\* running_subtype, open the adopted path; it returns only after all of them.
C6_ResetToStepOrder ==
    (rt_entry.state # "none" /\ rt_entry.running_subtype # rt_target) =>
        LET expected == ExpectedResetSteps(rt_entry.path, rt_target)
            steps == SelectSeq(rt_log, IsStep) IN
        /\ IsPrefix(steps, expected)
        /\ \A i \in 1..Len(rt_log) :
              /\ rt_log[i].step = "poll" => (i > 1 /\ rt_log[i - 1].step = "close")
              /\ rt_log[i].step = "wait" => (i > 1 /\ rt_log[i - 1].step = "removed")
        /\ rt_entry.state = "returned" =>
              /\ steps = expected
              /\ path = expected[7].path
              /\ running_subtype = rt_target
        /\ running_subtype = rt_target => Len(steps) = 7

\* C6 witness: reset_to(ctrl_app) entered in ctrl_updater1 has returned, having
\* polled in both phases.
C6_Witness ==
    /\ rt_entry.state = "returned"
    /\ rt_entry.running_subtype = SUBTYPE_CTRL_UPDATER1
    /\ rt_target = SUBTYPE_CTRL_APP
    /\ Len(rt_log) = 9
    /\ opened = DevAppPath

\* C7: whenever reset_to or segment_program, started with the Programmer's
\* view in agreement with the device, has returned or raised, running_subtype
\* (when known) is the mode the device runs and the current path is the path
\* the device is enumerated and open under.
C7_ViewAgreesWithDevice ==
    (pc = "idle" /\ op.name \in {"reset_to", "segment_program"} /\ op_entry.in_sync) => InSync

\* C8: a poll of the removal phase that finds the current path enumerated
\* raises TimeoutError when the deadline has passed and polls again when it has
\* not; a poll that finds the current path absent goes on to the reappearance
\* phase, deadline passed or not.
C8_RemovalDeadlineOnlyWhilePresent ==
    last_poll.phase = "removal" =>
        /\ (last_poll.present /\ last_poll.late) =>
              (pc = "idle" /\ outcome.kind = "TimeoutError" /\ rt_entry.state = "raised")
        /\ (last_poll.present /\ ~last_poll.late) =>
              (pc = "da_removal" /\ outcome.kind = "running")
        /\ ~last_poll.present =>
              (pc = "da_appear" /\ outcome.kind = "running" /\ rt_entry.state = "active")

\* C8 witness: the current path was first found absent after the deadline, and
\* the await went on to the reappearance phase.
C8_Witness ==
    /\ last_poll = [phase |-> "removal", present |-> FALSE, late |-> TRUE]
    /\ pc = "da_appear"

\* C9 as claimed: every poll of the reappearance phase made after the deadline
\* raises the timeout failure.
C9_AppearPollAfterDeadlineRaises ==
    (last_poll.phase = "appear" /\ last_poll.late) =>
        (rt_entry.state = "raised" /\ outcome.kind = "TimeoutError")

\* C9 amended: a poll of the reappearance phase that finds the awaited path
\* adopts it and reset_to goes on to succeed, deadline passed or not; a poll
\* that does not find it raises the timeout failure when the deadline has
\* passed and sleeps and polls again when it has not.
C9_AppearDeadlineOnlyWhileAbsent ==
    last_poll.phase = "appear" =>
        /\ last_poll.present =>
              /\ path = da_path
              /\ pc = "rt_open" \/ rt_entry.state = "returned"
              /\ rt_entry.state # "raised"
        /\ (~last_poll.present /\ last_poll.late) =>
              (pc = "idle" /\ outcome.kind = "TimeoutError" /\ rt_entry.state = "raised")
        /\ (~last_poll.present /\ ~last_poll.late) =>
              (pc = "da_appear" /\ outcome.kind = "running")

\* C9 witness: the awaited path was first found after the deadline and
\* reset_to returned with running_subtype = target.
C9_Witness ==
    /\ last_poll = [phase |-> "appear", present |-> TRUE, late |-> TRUE]
    /\ rt_entry.state = "returned"
    /\ running_subtype = rt_target
    /\ opened = path

\* C10: segment_program of a sensor_fpga segment makes one attempt: at most one
\* erase and one write, both on the FPGA region, no reset_to, no reset request,
\* close, open, enumeration or query, path and running_subtype as at entry; it
\* returns None right after the write and never fails fatally.
C10_FpgaOneAttemptNoVerify ==
    (op.name = "segment_program" /\ op.subtype = SUBTYPE_SENSOR_FPGA) =>
        /\ attempt = 0
        /\ cnt["erase"] <= 1 /\ cnt["write"] <= cnt["erase"]
        /\ \A k \in {"reset", "close", "open", "device_paths", "query"} : cnt[k] = 0
        /\ rt_entry.state = "none"
        /\ last_call.kind \in {"none", "erase", "write"}
        /\ last_call.kind # "none" => last_call.topic = "h/mem/s/app1"
        /\ path = op_entry.path
        /\ running_subtype = op_entry.running_subtype
        /\ outcome.kind \in {"running", "returned", "TimeoutError"}
        /\ (pc = "idle" /\ outcome.kind = "returned") =>
              /\ cnt["erase"] = 1 /\ cnt["write"] = 1
              /\ last_call.kind = "write"
              /\ retval = None
        /\ (pc = "idle" /\ cnt["write"] = 1) => outcome.kind \in {"returned", "TimeoutError"}

\* C10 witness: a sensor_fpga segment was written while ctrl_updater2 ran, and
\* segment_program returned.
C10_Witness ==
    /\ pc = "idle"
    /\ op.name = "segment_program"
    /\ op.subtype = SUBTYPE_SENSOR_FPGA
    /\ outcome.kind = "returned"
    /\ flash[SUBTYPE_SENSOR_FPGA] = V101
    /\ running_subtype = SUBTYPE_CTRL_UPDATER2

(***************************************************************************)
(* Properties of release_program                                           *)
(***************************************************************************)
InRelease == op.name = "release_program"
Returned == pc = "idle" /\ outcome = Outcome("returned", "")
Elements(q) == {q[i] : i \in 1..Len(q)}
\* The place of a subtype, and of its memory region, in the order
\* ctrl_updater2, ctrl_updater1, sensor_fpga, ctrl_app.
SubtypeRank(subtype) ==
    CASE subtype = SUBTYPE_CTRL_UPDATER2 -> 1
      [] subtype = SUBTYPE_CTRL_UPDATER1 -> 2
      [] subtype = SUBTYPE_SENSOR_FPGA -> 3
      [] OTHER -> 4
RegionRank(region) ==
    CASE region = "h/mem/c/upd2" -> 1
      [] region = "h/mem/c/upd1" -> 2
      [] region = "h/mem/s/app1" -> 3
      [] OTHER -> 4
\* The entry of a versions list under a name.
VersionEntry(list, name) == (CHOOSE e \in Elements(list) : e[1] = name)[2]
VersionName(subtype) ==
    CASE subtype = SUBTYPE_CTRL_UPDATER2 -> "update2"
      [] subtype = SUBTYPE_CTRL_UPDATER1 -> "update1"
      [] subtype = SUBTYPE_SENSOR_FPGA -> "fpga"
      [] OTHER -> "app"

\* The subtypes segment_program was invoked for come in the fixed order, each
\* at most once.
InFixedOrder(calls) ==
    \A i, j \in 1..Len(calls) : i < j => SubtypeRank(calls[i]) < SubtypeRank(calls[j])

\* C11: in a run of release_program segment_program is invoked at most once
\* per subtype and in the order ctrl_updater2, ctrl_updater1, sensor_fpga,
\* ctrl_app, and every step that issues an erase or a write request issues it
\* for the region of the subtype invoked last: no request for an earlier
\* region follows a request for a later one.
C11_RegionsInFixedOrder ==
    [][InRelease =>
          /\ InFixedOrder(rp.sp_calls')
          /\ (pc \in {"sp_erase", "sp_write"} /\ pc' # pc) =>
                /\ last_call'.kind \in {"erase", "write"}
                /\ Len(rp.sp_calls) > 0
                /\ RegionRank(last_call'.topic) = SubtypeRank(rp.sp_calls[Len(rp.sp_calls)])]_vars

\* C11 witness: all four subtypes were invoked and the ctrl_app region is
\* being written.
C11_Witness ==
    /\ InRelease
    /\ Len(rp.sp_calls) = 4
    /\ last_call.kind = "write"
    /\ last_call.topic = "h/mem/c/app"

\* C12: once release_program has passed the step of a subtype, it has invoked
\* segment_program for it exactly if the image has a segment for it and
\* (force_program is set or the segment's version differs from the current
\* version recorded for the subtype, None differing from every version); it
\* invokes nothing ahead of a step, and every erase or write request goes to
\* the region of a subtype the image has a segment for.
C12_ProgrammedIffNeeded ==
    InRelease =>
        /\ \A i \in 1..4 :
              LET subtype == ProgramOrder[i]
                  segment == rp.segments[subtype] IN
              subtype \in Elements(rp.sp_calls) <=>
                  /\ i <= rp.decided
                  /\ segment # NoSegment
                  /\ rp.force_program \/ segment.version # rp.before[subtype]
        /\ last_call.kind \in {"erase", "write"} =>
              \E subtype \in Subtypes :
                  /\ rp.segments[subtype] # NoSegment
                  /\ last_call.topic = TARGETS[subtype].mem_region

\* C12 witness: all four steps are passed; the forced segments were invoked
\* although their versions are the recorded ones, and ctrl_app, which the
\* image lacks, was not.
C12_Witness ==
    /\ InRelease
    /\ rp.decided = 4
    /\ rp.force_program
    /\ rp.segments[SUBTYPE_CTRL_APP] = NoSegment
    /\ rp.sp_calls = <<SUBTYPE_CTRL_UPDATER2, SUBTYPE_CTRL_UPDATER1, SUBTYPE_SENSOR_FPGA>>
    /\ \A s \in Elements(rp.sp_calls) : rp.before[s] = rp.segments[s].version

\* The image has all four segments, at the versions given by versions.
ImageEquals(versions) ==
    \A s \in Subtypes : rp.segments[s] # NoSegment /\ rp.segments[s].version = versions[s]

\* C13 as stated: release_program without force_program, on an image whose
\* four segment versions are the versions the device holds when it is called,
\* issues no erase and no write request and still calls reset_to(ctrl_app).
C13_NoRequestWhenDeviceVersionsEqual ==
    (InRelease /\ ~rp.force_program /\ ImageEquals(rp.flash0)) =>
        /\ cnt["erase"] = 0 /\ cnt["write"] = 0
        /\ rp.decided = 4 => rp.final_reset

\* C13: release_program without force_program, on an image whose four segment
\* versions are the four current versions it has recorded for versions_before,
\* invokes segment_program for no subtype, issues no erase and no write
\* request, and still calls reset_to(ctrl_app) in the ctrl_app step.
C13_NoRequestWhenRecordedVersionsEqual ==
    (InRelease /\ ~rp.force_program /\ rp.versions_before # NoVersions /\ ImageEquals(rp.before)) =>
        /\ rp.sp_calls = <<>>
        /\ cnt["erase"] = 0 /\ cnt["write"] = 0
        /\ rp.decided = 4 => rp.final_reset
        /\ Returned => running_subtype = SUBTYPE_CTRL_APP /\ cnt["reset"] = 3

\* C13 witness: such a run has returned.
C13_Witness ==
    /\ InRelease /\ ~rp.force_program
    /\ rp.versions_before # NoVersions /\ ImageEquals(rp.before)
    /\ Returned
    /\ rp.final_reset

\* release_program is in its probing steps.
Probing == rp.versions_before = NoVersions /\ rp.k > 0

C15_ReturnsInApp ==
    (InRelease /\ Returned) =>
        /\ running_subtype = SUBTYPE_CTRL_APP
        /\ path = path_app
        /\ rp.final_query = [issued |-> TRUE, running_subtype |-> SUBTYPE_CTRL_APP,
                             path |-> path_app]
        /\ last_call.kind = "close"
        /\ last_call.path = path_app

\* C15 witness: release_program has returned from a run that skipped the
\* ctrl_app segment and called reset_to(ctrl_app) from an updater.
C15_Witness ==
    /\ InRelease /\ Returned
    /\ rp.final_reset
    /\ SUBTYPE_CTRL_APP \notin Elements(rp.sp_calls)
    /\ op_entry.path # path_app
    /\ last_call.kind = "close"

AllAt(v) == [s \in Subtypes |-> v]
Rendered(str) == << <<"app", str>>, <<"fpga", str>>, <<"update1", str>>, <<"update2", str>> >>

\* The run of the end-to-end example: the image holds all four segments at
\* 1.0.1, the device starts on the app path with all four regions at 1.0.0,
\* and every request succeeds.
EndToEnd ==
    /\ InRelease
    /\ reliable
    /\ ImageEquals(AllAt(V101))
    /\ rp.flash0 = AllAt(V100)
    /\ op_entry.path = path_app

\* C16: the end-to-end run ends only by returning, with versions_before all
\* "1.0.0" and versions_after all "1.0.1"; it has invoked segment_program for
\* ctrl_updater2, ctrl_updater1, sensor_fpga and ctrl_app in this order, with
\* one erase and one write each, and no reset between the last updater reset
\* and the erase of the ctrl_app region: none around the sensor FPGA.
C16_EndToEnd ==
    EndToEnd =>
        /\ pc = "idle" =>
              /\ outcome = Outcome("returned", "")
              /\ rp.versions_before = Rendered("1.0.0")
              /\ rp.versions_after = Rendered("1.0.1")
              /\ rp.sp_calls = ProgramOrder
              /\ rp.sp_calls = <<SUBTYPE_CTRL_UPDATER2, SUBTYPE_CTRL_UPDATER1,
                                 SUBTYPE_SENSOR_FPGA, SUBTYPE_CTRL_APP>>
              /\ cnt["erase"] = 4 /\ cnt["write"] = 4 /\ cnt["reset"] = 5
        /\ (last_call.kind \in {"erase", "write"} /\ last_call.topic = "h/mem/s/app1") =>
              cnt["reset"] = 4
        /\ (last_call.kind = "erase" /\ last_call.topic = "h/mem/c/app") =>
              cnt["reset"] = 4 /\ cnt["write"] = 3

\* C16 witness: the end-to-end run has returned.
C16_Witness ==
    /\ EndToEnd
    /\ Returned
    /\ rp.versions_after = Rendered("1.0.1")

\* C17: release_program returns only when every segment_program it invoked
\* has returned, and then the versions_after entry of every controller subtype
\* it programmed is the rendering of the segment's version; when an invocation
\* of segment_program fails, release_program ends with the RuntimeError that
\* names the target, and without versions_after.
C17_NoSilentPartialSuccess ==
    (InRelease /\ pc = "idle") =>
        /\ Returned =>
              /\ rp.sp_returned = Len(rp.sp_calls)
              /\ \A s \in Elements(rp.sp_calls) \cap CtrlSubtypes :
                     VersionEntry(rp.versions_after, VersionName(s))
                         = version_to_str(Py(rp.segments[s].version))
        /\ rp.sp_active # None =>
              /\ outcome = Outcome("RuntimeError", TARGETS[rp.sp_active].name)
              /\ rp.versions_after = NoVersions

(***************************************************************************)
(* Properties of release_to_segments                                       *)
(***************************************************************************)
InParse == op.name = "release_to_segments"
\* A record as the format wants it.
WellFormed(r) ==
    /\ r.magic
    /\ r.len >= 1024
    /\ r.size = r.len
    /\ r.subtype \in Subtypes
DistinctSubtypes(records) ==
    \A i, j \in 1..Len(records) : i # j => records[i].subtype # records[j].subtype
\* The offset of the cursor in the image, and the offset at which record i starts.
Cursor == Len(ps.image) - Len(ps.img)
RECURSIVE StartOf(_, _)
StartOf(records, i) == IF i = 1 THEN 0 ELSE StartOf(records, i - 1) + records[i - 1].len

\* C18: for an image that is N well-formed records with pairwise distinct
\* subtypes laid end to end, release_to_segments returns, its result has
\* exactly N entries, and the entry under the subtype of each record carries
\* the record's subtype, its version, the name of its target and the bytes of
\* the record, as many as the record is long.
C18_RoundTrip ==
    (InParse /\ pc = "idle" /\ DistinctSubtypes(ps.records)
         /\ \A i \in 1..Len(ps.records) : WellFormed(ps.records[i])) =>
        /\ outcome = Outcome("returned", "")
        /\ ps.result.returned
        /\ Cardinality(DOMAIN ps.result.segments) = Len(ps.records)
        /\ \A i \in 1..Len(ps.records) :
              LET r == ps.records[i]
                  entry == ps.result.segments[r.subtype] IN
              /\ r.subtype \in DOMAIN ps.result.segments
              /\ entry.subtype = r.subtype
              /\ entry.version = r.version
              /\ entry.name = TARGETS[r.subtype].name
              /\ Len(entry.img) = r.len
              /\ entry.img = SubSeq(ps.image, StartOf(ps.records, i) + 1,
                                    StartOf(ps.records, i) + r.len)

\* C18 witness: an image of three well-formed records of distinct subtypes,
\* two of them longer than the 1024 bytes of the header, was parsed.
C18_Witness ==
    /\ InParse /\ pc = "idle"
    /\ Len(ps.records) = 3
    /\ DistinctSubtypes(ps.records)
    /\ \A i \in 1..3 : WellFormed(ps.records[i])
    /\ \E i, j \in 1..3 : i # j /\ ps.records[i].len > 1024 /\ ps.records[j].len > 1024
    /\ ps.result.returned

\* C19: when the records ahead of a record are well-formed and the record's
\* preamble is corrupt, so that the cursor comes to stand on bytes that do not
\* start with the magic preamble, release_to_segments ends with
\* RuntimeError('invalid image') and returns nothing, whatever it has decoded
\* before.
C19_CorruptPreambleFails ==
    \A i \in 1..Len(ps.records) :
        (InParse /\ pc = "idle" /\ ~ps.records[i].magic
             /\ \A j \in 1..(i - 1) : WellFormed(ps.records[j])) =>
            /\ outcome = InvalidImage
            /\ ps.result = NoResult
            /\ Cursor = StartOf(ps.records, i)

\* C19 witness: the preamble at the second boundary is corrupt; the parse has
\* failed there with the first segment decoded.
C19_Witness ==
    /\ InParse /\ pc = "idle"
    /\ Len(ps.records) >= 2
    /\ WellFormed(ps.records[1])
    /\ ~ps.records[2].magic /\ ps.records[2].len >= 1024
    /\ outcome = InvalidImage
    /\ Cardinality(DOMAIN ps.segments) = 1
    /\ Cursor = ps.records[1].len

\* C20: a step of release_to_segments taken with the cursor on a non-empty
\* remainder shorter than 1024 bytes ends the parse with
\* RuntimeError('invalid image') and without a result; and the parse returns
\* only with the cursor at the end of the image.
C20_ShortRemainderFails ==
    [][InParse =>
          /\ (Len(ps.img) > 0 /\ Len(ps.img) < 1024) =>
                 /\ pc' = "idle"
                 /\ outcome' = InvalidImage
                 /\ ps'.result = NoResult
          /\ ps'.result.returned => Len(ps'.img) = 0]_vars

\* C20 witness: a segment was decoded, and the parse has failed on trailing
\* data that starts with the magic preamble and is shorter than 1024 bytes.
C20_Witness ==
    /\ InParse /\ pc = "idle"
    /\ outcome = InvalidImage
    /\ Len(ps.img) >= 32 /\ Len(ps.img) < 1024
    /\ SubSeq(ps.img, 1, 32) = MAGIC_HEADER
    /\ Cardinality(DOMAIN ps.segments) >= 1

\* The size field of a decoded record, read from the record's own bytes 32..35
\* (little-endian), and the orders in which the entries of a result can be
\* laid end to end.
SizeField(b) == b[33] + b[34] * 256 + b[35] * 65536 + b[36] * 16777216
Orders(S) == {q \in [1..Cardinality(S) -> S] : \A i, j \in DOMAIN q : i # j => q[i] # q[j]}
RECURSIVE Concatenation(_, _)
Concatenation(segments, order) ==
    IF order = <<>> THEN <<>>
    ELSE segments[Head(order)].img \o Concatenation(segments, Tail(order))

\* C21: when release_to_segments returns, every entry of its result holds
\* exactly as many bytes as the size field of that record says, and the
\* records of the entries, laid end to end in the order of the image, are the
\* whole image: no gap and no trailing byte.
C21_RecordsTileImage ==
    (InParse /\ ps.result.returned) =>
        LET segments == ps.result.segments IN
        /\ \A k \in DOMAIN segments : Len(segments[k].img) = SizeField(segments[k].img)
        /\ \E order \in Orders(DOMAIN segments) : Concatenation(segments, order) = ps.image

\* C22: when release_to_segments returns, no two records of the image carry
\* the same subtype, and the result has as many entries as the image has
\* records.
C22_OneRecordPerSubtype ==
    (InParse /\ ps.result.returned /\ \A i \in 1..Len(ps.records) : WellFormed(ps.records[i])) =>
        /\ DistinctSubtypes(ps.records)
        /\ Cardinality(DOMAIN ps.result.segments) = Len(ps.records)

(***************************************************************************)
(* Properties of version_to_str and of the constructor                     *)
(***************************************************************************)
\* C23: version_to_str of an integer is the decimal rendering of
\* (v >> 24) & 0xff, (v >> 16) & 0xff and v & 0xffff joined by dots, so that
\* 0x01020003 gives "1.2.3"; of None it is "?.?.?"; of a string it is the
\* string itself.
C23_VersionToStr ==
    (pf.fn = "version_to_str" /\ pf.done) =>
        /\ pf.version.type = "NoneType" => pf.str = "?.?.?"
        /\ pf.version.type = "str" => pf.str = pf.version.str
        /\ pf.version.type = "int" =>
              /\ pf.parts[1] \in 0..255 /\ pf.parts[2] \in 0..255 /\ pf.parts[3] \in 0..65535
              /\ pf.version.int = pf.parts[1] * 16777216 + pf.parts[2] * 65536 + pf.parts[3]
              /\ pf.str = ToString(pf.parts[1]) \o "." \o ToString(pf.parts[2])
                              \o "." \o ToString(pf.parts[3])
              /\ pf.version.int = 16908291 => pf.str = "1.2.3"

\* C23 witness: 0x01020003 was rendered as "1.2.3".
C23_Witness ==
    /\ pf.fn = "version_to_str" /\ pf.done
    /\ pf.version = PyInt(16908291)
    /\ pf.str = "1.2.3"

\* C24: constructed on an app path p (no marker at index 2) or on its updater
\* spelling u (p with the marker inserted at index 2), the Programmer holds
\* the same pair, path_app = p and path_updater = u; on p it starts with
\* running_subtype = ctrl_app, on u with running_subtype unknown, and its
\* current path is the spelling it was given.
C24_SamePathPair ==
    (pf.fn = "Programmer" /\ pf.done) =>
        /\ path_app = pf.path_app
        /\ path_updater = UpdaterSpelling(pf.path_app)
        /\ path = pf.device_path
        /\ pf.device_path = pf.path_app => running_subtype = SUBTYPE_CTRL_APP
        /\ pf.device_path = UpdaterSpelling(pf.path_app) => running_subtype = None

\* C24 witness: a Programmer was constructed on the updater spelling of an
\* app path that has a marker further on.
C24_Witness ==
    /\ pf.fn = "Programmer" /\ pf.done
    /\ pf.path_app = <<"u", "/", "j", "&">>
    /\ pf.device_path = <<"u", "/", "&", "j", "&">>
    /\ path_app = <<"u", "/", "j", "&">>
    /\ running_subtype = None

(***************************************************************************)
(* Frame of running_subtype                                                *)
(***************************************************************************)
\* C25: running_subtype changes only in the step of reset_to that follows the
\* successful await, to the target of that call, and that reset_to then
\* returns; every other step (query, publish, open, close, the erase and write
\* steps of segment_program, a no-op reset_to) leaves it unchanged; a reset_to
\* that ends with TimeoutError leaves running_subtype and the current path as
\* they were when it was called; and a known running_subtype never becomes
\* unknown.
C25_RunningSubtypeFrame ==
    [][/\ running_subtype' # running_subtype =>
             /\ pc = "rt_open"
             /\ running_subtype' = rt_target
             /\ rt_entry.state = "active" /\ rt_entry'.state = "returned"
       /\ (rt_entry.state = "active" /\ rt_entry'.state = "raised"
              /\ outcome'.kind = "TimeoutError") =>
             /\ running_subtype' = rt_entry.running_subtype
             /\ path' = rt_entry.path
       /\ running_subtype # None => running_subtype' # None]_vars

\* C25 witness: a reset_to called with ctrl_app running has returned with
\* ctrl_updater1 running.
C25_Witness ==
    /\ rt_entry.state = "returned"
    /\ rt_entry.running_subtype = SUBTYPE_CTRL_APP
    /\ rt_target = SUBTYPE_CTRL_UPDATER1
    /\ running_subtype = SUBTYPE_CTRL_UPDATER1
    /\ last_call.kind = "open"

(***************************************************************************)
(* Properties of release_get                                               *)
(***************************************************************************)
\* The channel an argument stands for, spelled exactly, and spelled without
\* regard to capitals; "invalid" when it stands for none.
ChannelAsGiven(maturity) ==
    IF maturity.type = "NoneType" THEN "stable"
    ELSE IF maturity.str \in {"alpha", "beta", "stable"} THEN maturity.str
    ELSE "invalid"
ChannelIgnoringCase(maturity) ==
    IF maturity.type = "NoneType" THEN "stable"
    ELSE IF maturity.str \in {"alpha"} THEN "alpha"
    ELSE IF maturity.str \in {"beta", "Beta"} THEN "beta"
    ELSE IF maturity.str \in {"stable", "STABLE"} THEN "stable"
    ELSE "invalid"
StartsWithMagic(bytes) == Len(bytes) >= 32 /\ SubSeq(bytes, 1, 32) = MAGIC_HEADER
\* What release_get has done when it has ended, for an argument that stands
\* for channel m.
GetContract(m) ==
    (op.name = "release_get" /\ pc = "idle") =>
        IF m = "invalid"
        THEN /\ outcome.kind = "ValueError"
             /\ ~rg.accessed /\ rg.url_saves = 0
             /\ rg.files = rg.files0
        ELSE LET dist == rg.files0["dist"][m]
                 release == rg.files0["release"][m] IN
             IF ~rg.force_download /\ (dist.exists \/ release.exists)
             THEN /\ outcome = Outcome("returned", "")
                  /\ rg.result = IF release.exists THEN release.bytes ELSE dist.bytes
                  /\ rg.url_saves = 0
                  /\ rg.files = rg.files0
             ELSE /\ rg.url_saves > 0
                  /\ IF rg.server = "ok"
                     THEN /\ outcome = Outcome("returned", "")
                          /\ rg.files["release"][m].exists
                          /\ rg.result = rg.files["release"][m].bytes
                          /\ StartsWithMagic(rg.result)
                          /\ rg.result \notin {dist.bytes, release.bytes}
                     ELSE outcome.kind \in {"FileNotFoundError", "RuntimeError"}

\* C26 as claimed: a maturity that is not None and not one of alpha, beta,
\* stable raises ValueError before any file or network access; otherwise,
\* without force_download a local img_<maturity>.img is returned without a
\* download, the release-path copy before the distribution copy, and with
\* force_download or without a local copy the images are downloaded and the
\* release-path copy, which starts with the magic preamble, is returned.
C26_ReleaseGetAsClaimed == GetContract(ChannelAsGiven(rg.maturity))

\* C26 amended: the maturity is lower-cased before it is compared, so that
\* "STABLE" and "Beta" select the channels stable and beta; only a maturity
\* whose lower-case form is none of alpha, beta, stable raises ValueError
\* before any file or network access.  The rest is as claimed, the download
\* ending in the release-path copy when the server answers and the images
\* carry the subtypes of their targets.
C26_ReleaseGetIgnoringCase == GetContract(ChannelIgnoringCase(rg.maturity))

\* C26 witness: release_get("STABLE") with both local copies present has
\* returned the release-path copy without a download.
C26_Witness ==
    /\ op.name = "release_get" /\ pc = "idle"
    /\ rg.maturity = PyStr("STABLE")
    /\ ~rg.force_download
    /\ rg.files0["dist"]["stable"].exists /\ rg.files0["release"]["stable"].exists
    /\ outcome = Outcome("returned", "")
    /\ rg.result = LocalImage("release", "stable")
    /\ rg.url_saves = 0

(***************************************************************************)
(* Properties of release_program: versions_before, erase and write,        *)
(* progress                                                                *)
(***************************************************************************)
\* C27: versions_before is set before release_program issues an erase or a
\* write request and does not change afterwards; it lists app, fpga, update1,
\* update2 in this order; its app entry is "?.?.?" exactly when the session
\* started on the updater path, and then no app-version query was made; the
\* entry of an updater is "?.?.?" exactly when the probe of that updater ended
\* with TimeoutError.
C27_VersionsBefore ==
    /\ [](InRelease =>
            /\ (cnt["erase"] > 0 \/ cnt["write"] > 0) => rp.versions_before # NoVersions
            /\ (pc = "rp_probe" /\ rp.k = 1) =>
                  cnt["query"] = (IF op_entry.path = path_app THEN 1 ELSE 0)
            /\ rp.versions_before # NoVersions =>
                  LET vb == rp.versions_before IN
                  /\ <<vb[1][1], vb[2][1], vb[3][1], vb[4][1]>>
                        = <<"app", "fpga", "update1", "update2">>
                  /\ (vb[1][2] = "?.?.?") <=> (op_entry.path # path_app)
                  /\ vb[2][2] # "?.?.?"
                  /\ (vb[3][2] = "?.?.?") <=> (rp.probe[2] = "timeout")
                  /\ (vb[4][2] = "?.?.?") <=> (rp.probe[1] = "timeout"))
    /\ [][(InRelease /\ rp.versions_before # NoVersions) =>
             rp.versions_before' = rp.versions_before]_vars

\* C27 witness: the session started on the updater path, the probe of
\* ctrl_updater2 timed out and that of ctrl_updater1 did not, and an erase
\* request has been issued.
C27_Witness ==
    /\ InRelease
    /\ op_entry.path = path_updater
    /\ rp.probe[1] = "timeout" /\ rp.probe[2] = "ok"
    /\ rp.versions_before # NoVersions
    /\ rp.versions_before[1][2] = "?.?.?"
    /\ rp.versions_before[4][2] = "?.?.?"
    /\ rp.versions_before[3][2] # "?.?.?"
    /\ cnt["erase"] > 0

\* C28: in a call of segment_program every attempt issues its erase request
\* on the region of the segment before its write request on the same region;
\* the write is issued only when the erase has returned without error, and an
\* erase that raised ends the call; the call issues at most 10 erase and at
\* most 10 write requests, at most one of each per attempt.
C28_EraseBeforeWrite ==
    op.name = "segment_program" =>
        LET region == TARGETS[seg.subtype].mem_region IN
        /\ cnt["erase"] <= 10 /\ cnt["write"] <= 10
        /\ cnt["erase"] <= attempt + 1
        /\ cnt["write"] <= cnt["erase"] /\ cnt["erase"] <= cnt["write"] + 1
        /\ pc = "sp_write" =>
              /\ last_call.kind = "erase" /\ last_call.topic = region
              /\ outcome = Running
              /\ cnt["erase"] = cnt["write"] + 1
        /\ last_call.kind = "erase" =>
              /\ last_call.topic = region
              /\ cnt["erase"] = cnt["write"] + 1
              /\ pc = "sp_write" \/ (pc = "idle" /\ outcome.kind = "TimeoutError")
        /\ last_call.kind = "write" =>
              /\ last_call.topic = region
              /\ cnt["write"] = cnt["erase"]

\* C28 witness: the tenth attempt has issued its write after its erase.
C28_Witness ==
    /\ op.name = "segment_program"
    /\ attempt = 9
    /\ cnt["erase"] = 10 /\ cnt["write"] = 10
    /\ last_call.kind = "write"

\* The suffix of the progress label by attempt: none on the first attempt,
\* " (retry N)" on the N-th retry.
Suffixes ==
    <<"", " (retry 1)", " (retry 2)", " (retry 3)", " (retry 4)", " (retry 5)", " (retry 6)",
      " (retry 7)", " (retry 8)", " (retry 9)">>
\* An attempt of segment_program has begun and has issued no request yet.
AttemptBegun == pc = "sp_erase" \/ (Len(stack) > 0 /\ Head(stack) = "sp_erase")

\* C29: when an attempt of segment_program has begun, the last progress
\* report is the one at range_start (p1) with the label followed by nothing
\* on the first attempt and by " (retry N)" on the N-th retry, N = 1..9; and
\* release_program calls segment_program with the labels and fractions
\* 0.1/0.15 for ctrl_updater2, 0.2/0.25 for ctrl_updater1, 0.3/0.55 for
\* sensor_fpga and 0.65/0.9 for ctrl_app, whatever segments the image holds.
C29_ProgressPerAttempt ==
    InRelease =>
        /\ AttemptBegun =>
              /\ attempt \in 0..9
              /\ progress = [completion |-> sp_args.p1,
                             msg |-> sp_args.progress_msg \o Suffixes[attempt + 1]]
        /\ rp.sp_active # None =>
              /\ seg.subtype = rp.sp_active
              /\ rp.sp_active = SUBTYPE_CTRL_UPDATER2 =>
                    sp_args = [progress_msg |-> "Program updater2", p1 |-> 10, p2 |-> 15]
              /\ rp.sp_active = SUBTYPE_CTRL_UPDATER1 =>
                    sp_args = [progress_msg |-> "Program updater1", p1 |-> 20, p2 |-> 25]
              /\ rp.sp_active = SUBTYPE_SENSOR_FPGA =>
                    sp_args = [progress_msg |-> "Program sensor FPGA", p1 |-> 30, p2 |-> 55]
              /\ rp.sp_active = SUBTYPE_CTRL_APP =>
                    sp_args = [progress_msg |-> "Program controller application",
                               p1 |-> 65, p2 |-> 90]

\* C29 witness: the ninth retry of programming ctrl_updater1 has begun, in a
\* run on an image without a ctrl_app segment.
C29_Witness ==
    /\ InRelease
    /\ pc = "sp_erase"
    /\ attempt = 9
    /\ rp.segments[SUBTYPE_CTRL_APP] = NoSegment
    /\ progress = [completion |-> 20, msg |-> "Program updater1 (retry 9)"]

\* C30: in a run of release_program no step issues an erase request for the
\* region of an updater while the device is on the bus executing that same
\* updater, whatever the Programmer's running_subtype says.
C30_NoEraseOfExecutingUpdater ==
    [][(InRelease /\ pc = "sp_erase" /\ pc' # pc) =>
          ~(/\ seg.subtype \in {SUBTYPE_CTRL_UPDATER1, SUBTYPE_CTRL_UPDATER2}
            /\ last_call'.kind = "erase"
            /\ last_call'.topic = TARGETS[seg.subtype].mem_region
            /\ dev_on /\ dev_mode = seg.subtype)]_vars

\* C31: no step of segment_program issues an erase request for the ctrl_app
\* region while running_subtype is ctrl_app, on the first attempt and on every
\* retry.
C31_AppErasedOnlyUnderUpdater ==
    [][(pc = "sp_erase" /\ pc' # pc /\ seg.subtype = SUBTYPE_CTRL_APP) =>
          ~(/\ last_call'.kind = "erase"
            /\ last_call'.topic = TARGETS[SUBTYPE_CTRL_APP].mem_region
            /\ running_subtype = SUBTYPE_CTRL_APP)]_vars

(***************************************************************************)
(* Properties of reset_to against the device's reboot                      *)
(***************************************************************************)
\* C32: when, after reset_to has published the reset request and closed the
\* handle, the device has left the bus and has re-enumerated under the awaited
\* path before the deadline, reset_to does not raise: it returns, and with
\* running_subtype equal to its target.
C32_RebootInTimeReturns ==
    [][(da_device = "back" /\ rt_entry.state = "active") =>
          /\ rt_entry'.state # "raised"
          /\ rt_entry'.state = "returned" => running_subtype' = rt_target]_vars

(***************************************************************************)
(* Properties of release_program: the handle, the progress reports         *)
(***************************************************************************)
\* The open and close calls counted so far alternate, beginning with a close.
Alternate == cnt["open"] <= cnt["close"] /\ cnt["close"] <= cnt["open"] + 1
\* An open call was refused: its path was not enumerated.
OpenRefused == last_call.kind = "open" /\ outcome.kind = "DriverError"

\* C33: in a run of release_program entered with the handle open, the open and
\* close calls on the device alternate, the first being a close: no close is
\* issued on a closed handle, no open on an open one; and no open is issued on
\* a path that is not enumerated.
C33_OpenCloseAlternate ==
    InRelease =>
        /\ cnt["close"] < MaxCalls => Alternate
        /\ ~OpenRefused

\* C34: over a run of release_program the completion fractions passed to the
\* progress callback never decrease, retries of segment_program included, and
\* 1.0 is reported only by the last call of a run that returns.
C34_ProgressNeverDecreases ==
    /\ []((InRelease /\ progress.completion = 100) => Returned)
    /\ [][InRelease => progress'.completion >= progress.completion]_vars

(***************************************************************************)
(* Properties of release_to_segments: termination, the kinds of failure    *)
(***************************************************************************)
\* The pass of the loop that starts in this state does not fail.
PassGoesOn ==
    /\ pc = "rts_while" /\ Len(ps.img) # 0
    /\ HasMagic(ps.img) /\ ~TooShort(ps.img)
    /\ Unpack(Slice(ps.img, SubtypeOffset, SubtypeOffset + 2)) \in DOMAIN TARGETS
\* img[sz:] as that pass computes it.
NextRemainder == SliceFrom(ps.img, SizeField(ps.img))

\* C35: a pass of the loop of release_to_segments that does not fail leaves a
\* remainder strictly shorter than the one it started with, whatever the
\* value of the size field.
C35_EveryPassShortens ==
    (InParse /\ PassGoesOn) => Len(NextRemainder) < Len(ps.img)

\* C36: release_to_segments ends by returning or by raising
\* RuntimeError('invalid image'), never with another exception, and no entry
\* of its segments has a key that is not a subtype of TARGETS.
C36_OnlyInvalidImage ==
    InParse =>
        /\ pc = "idle" => (ps.result.returned \/ outcome = InvalidImage)
        /\ DOMAIN ps.segments \subseteq DOMAIN TARGETS

(***************************************************************************)
(* Properties of the Programmer between operations                         *)
(***************************************************************************)
\* C37: between operations of the Programmer, whether the last one returned
\* or raised, the current path is the app path or the updater path, and
\* running_subtype is ctrl_app exactly when the current path is the app path.
C37_PathMatchesSubtype ==
    pc \in {"ready", "idle"} =>
        /\ path \in {path_app, path_updater}
        /\ (running_subtype = SUBTYPE_CTRL_APP) <=> (path = path_app)

\* C37 witness: a reset_to(ctrl_app) called with an updater running has
\* returned, and the current path is the app path.
C37_Witness ==
    /\ pc = "idle" /\ op.name = "reset_to" /\ op.subtype = SUBTYPE_CTRL_APP
    /\ op_entry.path = path_updater
    /\ outcome = Outcome("returned", "")
    /\ path = path_app /\ running_subtype = SUBTYPE_CTRL_APP

(***************************************************************************)
(* Termination                                                             *)
(***************************************************************************)
\* C38: when the program keeps taking steps and the clock passes every
\* deadline, every call of reset_to returns or raises and every run of
\* release_program returns or raises.
C38_Terminates ==
    /\ [](rt_entry.state = "active" => <>(rt_entry.state \in {"returned", "raised"}))
    /\ <>(pc = "idle")


(***************************************************************************)
(* Properties of Record.open and Record.close                              *)
(***************************************************************************)
\* How often s stands in the sequence calls.
Times(calls, s) == Cardinality({n \in 1..Len(calls) : calls[n] = s})

\* C39: in every sequence of Record.open and Record.close calls in which close
\* is called on an open Record only, open on an open Record closes the
\* recording before it makes the next writer, and once close has finished
\* every subscription the open before it made has been unsubscribed exactly
\* once with the same callback and is gone from the driver, 0 has been
\* published to the control topic of every signal whether or not an earlier
\* publish failed, and the writer is closed and self._wr is None.
C39_CloseUndoesOpen ==
    /\ rec.last = "close" =>
          /\ \A n \in 1..Len(rec.subscribed) :
                Times(rec.unsubscribed, rec.subscribed[n]) = 1
          /\ rec.subs = <<>>
          /\ \A k \in 1..Len(rec.signals) : SIGNALS[rec.signals[k]].ctrl_topic \in rec.zeros
          /\ rec.wr = 0
          /\ \A w \in 1..Len(rec.writers) : ~rec.writers[w].open
    /\ (rec.pc = "open_writer" /\ rec.was_open) => rec.last = "close"
    /\ Cardinality({w \in 1..Len(rec.writers) : rec.writers[w].open}) <= 1

\* open on an open Record of two or more signals has closed the recording, and
\* a publish of 0 failed on the way.
C39_Witness ==
    /\ rec.pc = "open_writer" /\ rec.was_open /\ rec.last = "close"
    /\ Len(rec.subscribed) >= 2
    /\ rec.failed # {}
    /\ rec.failed # rec.zeros

====
